---------------------------- MODULE Spec2Model ----------------------------
(***************************************************************************)
(* A model of adafruit_httpserver: the Server control plane (start, stop,  *)
(* poll), request dispatch (_handle_request), and the route table          *)
(* (Route, Server.route, Server._find_handler).                            *)
(*                                                                         *)
(* Strings are modelled as sequences of one-character strings, so that     *)
(* the string operations of the source (split, strip, replace, re.sub,     *)
(* re.match) are computed and not assumed.                                 *)
(***************************************************************************)
EXTENDS Integers, Sequences, FiniteSets, TLC

VARIABLES
    stopped,      \* Server.stopped
    host,         \* Server.host
    port,         \* Server.port
    sock,         \* Server._sock, the listening socket
    auths,        \* Server._auths
    root_path,    \* Server.root_path
    routes,       \* Server._routes
    conn,         \* the connection accepted by the most recent poll() that accepted one
    last,         \* what the most recent call of start(), stop() or poll() did
    arg,          \* inputs of the function under check (pure-function specifications)
    out           \* its result

vars == <<stopped, host, port, sock, auths, root_path, routes, conn, last, arg, out>>

None == "None"

(***************************************************************************)
(* Bounds of the model.                                                    *)
(***************************************************************************)
MaxPieces == 3       \* a route template is the concatenation of at most this many pieces
MaxPathLen == 4      \* a request path has at most this many characters
MaxWire == 3         \* a kept connection is written to while it has fewer writes than this

-----------------------------------------------------------------------------
(***************************************************************************)
(* String helpers.                                                         *)
(***************************************************************************)
RECURSIVE Concat(_)
Concat(ss) == IF ss = <<>> THEN <<>> ELSE Head(ss) \o Concat(Tail(ss))

IsPrefixAt(s, i, p) ==
    /\ i + Len(p) - 1 <= Len(s)
    /\ SubSeq(s, i, i + Len(p) - 1) = p

Contains(s, p) == \E i \in 1..Len(s) : IsPrefixAt(s, i, p)

StartsWith(s, p) == IsPrefixAt(s, 1, p)

EndsWith(s, p) == Len(p) <= Len(s) /\ SubSeq(s, Len(s) - Len(p) + 1, Len(s)) = p

\* str.replace(old, new): leftmost, non-overlapping occurrences, from position i.
RECURSIVE Replace(_, _, _, _)
Replace(s, i, old, new) ==
    IF i > Len(s) THEN <<>>
    ELSE IF IsPrefixAt(s, i, old) THEN new \o Replace(s, i + Len(old), old, new)
    ELSE <<s[i]>> \o Replace(s, i + 1, old, new)

\* str.split(sep) for a one-character separator: the pieces, empty ones included.
RECURSIVE SplitFrom(_, _, _, _)
SplitFrom(s, i, sep, cur) ==
    IF i > Len(s) THEN <<cur>>
    ELSE IF s[i] = sep THEN <<cur>> \o SplitFrom(s, i + 1, sep, <<>>)
    ELSE SplitFrom(s, i + 1, sep, Append(cur, s[i]))

Split(s, sep) == SplitFrom(s, 1, sep, <<>>)

-----------------------------------------------------------------------------
(***************************************************************************)
(* route.py: Route.                                                        *)
(***************************************************************************)
GET == "GET"
POST == "POST"
HEAD == "HEAD"

\* The characters of the model's alphabet that the regex class \w matches.
WordChars == {"a", "b"}

RECURSIVE WordRun(_, _)
WordRun(s, i) == IF i <= Len(s) /\ s[i] \in WordChars THEN 1 + WordRun(s, i + 1) ELSE 0

GroupSource == <<"(", "[", "^", "/", "]", "+", ")">>
SegmentSource == <<"[", "^", "/", "]", "+">>
AnySource == <<".", "+">>
Dots3 == <<".", ".", ".">>
Dots4 == <<".", ".", ".", ".">>

\* re.sub(r"<\w+>", r"([^/]+)", path), from position i.
RECURSIVE SubParameters(_, _)
SubParameters(s, i) ==
    IF i > Len(s) THEN <<>>
    ELSE LET k == WordRun(s, i + 1) IN
         IF s[i] = "<" /\ k >= 1 /\ i + k + 1 <= Len(s) /\ s[i + k + 1] = ">"
         THEN GroupSource \o SubParameters(s, i + k + 2)
         ELSE <<s[i]>> \o SubParameters(s, i + 1)

\* Route.__init__: self.path, the source text of the route's regular expression.
RoutePath(path, append_slash) ==
    Replace(Replace(SubParameters(path, 1), 1, Dots4, AnySource), 1, Dots3, SegmentSource)
        \o (IF append_slash THEN <<"/", "?">> ELSE <<>>)

\* The first position >= i of s holding "<" or ">", or Len(s) + 1.
RECURSIVE SkipToBracket(_, _)
SkipToBracket(s, i) ==
    IF i > Len(s) \/ s[i] \in {"<", ">"} THEN i ELSE SkipToBracket(s, i + 1)

\* re.compile(r"/[^<>]*/?").split(path): a match starts at a "/" and runs up to the
\* next "<" or ">" (or the end); the pieces are what lies between the matches.
RECURSIVE NameSplit(_, _, _)
NameSplit(s, i, cur) ==
    IF i > Len(s) THEN <<cur>>
    ELSE IF s[i] = "/" THEN <<cur>> \o NameSplit(s, SkipToBracket(s, i + 1), <<>>)
    ELSE NameSplit(s, i + 1, Append(cur, s[i]))

\* name[1:-1]
StripEnds(name) == IF Len(name) <= 2 THEN <<>> ELSE SubSeq(name, 2, Len(name) - 1)

\* Route.__init__: self.parameters_names
ParametersNames(path) ==
    LET pieces == NameSplit(path, 1, <<>>)
        kept == SelectSeq(pieces, LAMBDA x : x # <<>>)
    IN [i \in 1..Len(kept) |-> StripEnds(kept[i])]

\* Route._validate_path: the error it raises, or None.
validate_path(path, append_slash) ==
    IF ~StartsWith(path, <<"/">>) THEN "ValueError"
    ELSE IF Contains(path, <<"<", ">">>) THEN "ValueError"
    ELSE IF EndsWith(path, <<"/">>) /\ append_slash THEN "ValueError"
    ELSE None

\* Route.__init__, given a path that passed _validate_path.
Route(path, methods, handler, append_slash) ==
    [path |-> RoutePath(path, append_slash),
     parameters_names |-> ParametersNames(path),
     methods |-> methods,
     handler |-> handler]

(***************************************************************************)
(* re.match(f"^{self.path}$", subject): the regular expressions that       *)
(* RoutePath produces from templates over the model's alphabet are made of *)
(* literal characters, ".", ".+", "[^/]+", "([^/]+)" and a final "/?".     *)
(***************************************************************************)
\* re.compile: the items of the expression's source, from position i.
RECURSIVE ParseRegex(_, _)
ParseRegex(src, i) ==
    IF i > Len(src) THEN <<>>
    ELSE IF IsPrefixAt(src, i, GroupSource)
         THEN <<[kind |-> "group", ch |-> ""]>> \o ParseRegex(src, i + Len(GroupSource))
    ELSE IF IsPrefixAt(src, i, SegmentSource)
         THEN <<[kind |-> "seg", ch |-> ""]>> \o ParseRegex(src, i + Len(SegmentSource))
    ELSE IF IsPrefixAt(src, i, AnySource)
         THEN <<[kind |-> "any", ch |-> ""]>> \o ParseRegex(src, i + Len(AnySource))
    ELSE IF src[i] = "."
         THEN <<[kind |-> "dot", ch |-> ""]>> \o ParseRegex(src, i + 1)
    ELSE IF i + 1 <= Len(src) /\ src[i + 1] = "?"
         THEN <<[kind |-> "opt", ch |-> src[i]]>> \o ParseRegex(src, i + 2)
    ELSE <<[kind |-> "lit", ch |-> src[i]]>> \o ParseRegex(src, i + 1)

NoMatch == [ok |-> FALSE, groups |-> <<>>]

\* How many characters of s from position j on are not "/".
RECURSIVE SegmentRun(_, _)
SegmentRun(s, j) == IF j <= Len(s) /\ s[j] # "/" THEN 1 + SegmentRun(s, j + 1) ELSE 0

\* The backtracking matcher: items i.. of re against s from position j, anchored at
\* the end of s. A repetition is greedy: the longest run first, then shorter ones.
RECURSIVE MatchFrom(_, _, _, _)
RECURSIVE MatchRepeat(_, _, _, _, _)
MatchFrom(re, i, s, j) ==
    IF i > Len(re) THEN (IF j = Len(s) + 1 THEN [ok |-> TRUE, groups |-> <<>>] ELSE NoMatch)
    ELSE LET t == re[i] IN
         CASE t.kind = "lit" ->
                IF j <= Len(s) /\ s[j] = t.ch THEN MatchFrom(re, i + 1, s, j + 1) ELSE NoMatch
           [] t.kind = "dot" ->
                IF j <= Len(s) THEN MatchFrom(re, i + 1, s, j + 1) ELSE NoMatch
           [] t.kind = "opt" ->
                LET taken == IF j <= Len(s) /\ s[j] = t.ch
                             THEN MatchFrom(re, i + 1, s, j + 1) ELSE NoMatch
                IN IF taken.ok THEN taken ELSE MatchFrom(re, i + 1, s, j)
           [] t.kind = "any" -> MatchRepeat(re, i, s, j, Len(s) - j + 1)
           [] OTHER -> MatchRepeat(re, i, s, j, SegmentRun(s, j))

MatchRepeat(re, i, s, j, k) ==
    IF k < 1 THEN NoMatch
    ELSE LET rest == MatchFrom(re, i + 1, s, j + k) IN
         IF rest.ok
         THEN IF re[i].kind = "group"
              THEN [ok |-> TRUE, groups |-> <<SubSeq(s, j, j + k - 1)>> \o rest.groups]
              ELSE rest
         ELSE MatchRepeat(re, i, s, j, k - 1)

\* re.match(f"^{path}$", subject)
RegexMatch(path, subject) == MatchFrom(ParseRegex(path, 1), 1, subject, 1)

\* dict(zip(names, values)): a later pair replaces an earlier one of the same name.
RECURSIVE DictZip(_, _, _)
DictZip(names, values, n) ==
    IF n = 0 THEN <<>>
    ELSE LET d == DictZip(names, values, n - 1) IN
         [k \in (DOMAIN d) \cup {names[n]} |-> IF k = names[n] THEN values[n] ELSE d[k]]

Min(a, b) == IF a < b THEN a ELSE b

EmptyDict == <<>>

\* Route.match(other): other is a Route built from the request's path and method.
match(self, other) ==
    IF ~(other.methods \subseteq self.methods) THEN <<FALSE, EmptyDict>>
    ELSE LET regex_match == RegexMatch(self.path, other.path) IN
         IF ~regex_match.ok THEN <<FALSE, EmptyDict>>
         ELSE <<TRUE, DictZip(self.parameters_names, regex_match.groups,
                              Min(Len(self.parameters_names), Len(regex_match.groups)))>>

\* Route.matches(method, path), which Server._find_handler calls: the method test,
\* then the match of the whole path against the route's compiled expression.
matches(self, method, path) ==
    IF method \notin self.methods THEN <<FALSE, EmptyDict>>
    ELSE LET regex_match == RegexMatch(self.path, path) IN
         IF ~regex_match.ok THEN <<FALSE, EmptyDict>>
         ELSE <<TRUE, DictZip(self.parameters_names, regex_match.groups,
                              Min(Len(self.parameters_names), Len(regex_match.groups)))>>


-----------------------------------------------------------------------------
(***************************************************************************)
(* server.py: the route table of a Server.                                 *)
(***************************************************************************)
\* "No handler": the None that the searches return, as a record without a handler.
NoHandler == [handler |-> None, url_parameters |-> <<>>]

\* list.append / list.extend on Server._routes
routes_extend(rs, new) == rs \o new

\* Server._find_handler: the first route of rs, from index i on, that matches.
RECURSIVE find_handler_from(_, _, _, _)
find_handler_from(rs, i, method, path) ==
    IF i > Len(rs) THEN NoHandler
    ELSE LET m == matches(rs[i], method, path) IN
         IF m[1] THEN [handler |-> rs[i].handler, url_parameters |-> m[2]]
         ELSE find_handler_from(rs, i + 1, method, path)

\* A search in which the last matching route wins.
RECURSIVE find_handler_last_from(_, _, _, _)
find_handler_last_from(rs, i, method, path) ==
    IF i < 1 THEN NoHandler
    ELSE LET m == matches(rs[i], method, path) IN
         IF m[1] THEN [handler |-> rs[i].handler, url_parameters |-> m[2]]
         ELSE find_handler_last_from(rs, i - 1, method, path)

find_handler_last(rs, method, path) == find_handler_last_from(rs, Len(rs), method, path)

find_handler(rs, method, path) == find_handler_from(rs, 1, method, path)

\* route.py, _Routes.find_handler(route): the same search, by Route.match.
RECURSIVE Routes_find_handler_from(_, _, _)
Routes_find_handler_from(rs, i, route) ==
    IF i > Len(rs) THEN NoHandler
    ELSE LET m == match(rs[i], route) IN
         IF m[1] THEN [handler |-> rs[i].handler, url_parameters |-> m[2]]
         ELSE Routes_find_handler_from(rs, i + 1, route)

Routes_find_handler(rs, route) == Routes_find_handler_from(rs, 1, route)

-----------------------------------------------------------------------------
(***************************************************************************)
(* Exceptions. An exception is a record of its class, and for an OSError   *)
(* its errno, for an SSLError its reason.                                  *)
(***************************************************************************)
EAGAIN == 11
ECONNRESET == 104
ETIMEDOUT == 110
ENOTCONN == 107
MBEDTLS_ERR_SSL_FATAL_ALERT_MESSAGE == -30592

NoError == [cls |-> None, errno |-> 0, reason |-> None]
Raised(cls) == [cls |-> cls, errno |-> 0, reason |-> None]
OSError(errno) == [cls |-> "OSError", errno |-> errno, reason |-> None]
SSLError(reason) == [cls |-> "SSLError", errno |-> 1, reason |-> reason]
KeyboardInterrupt == Raised("KeyboardInterrupt")

BrokenPipeError == [cls |-> "BrokenPipeError", errno |-> 32, reason |-> None]

\* isinstance(error, OSError): ssl.SSLError and BrokenPipeError are subclasses.
IsOSError(error) == error.cls \in {"OSError", "SSLError", "BrokenPipeError"}

\* "except Exception" catches everything but the BaseException-only classes.
IsException(error) == error.cls # "KeyboardInterrupt"

\* isinstance(error, InvalidPathError): the two path errors are its subclasses.
IsInvalidPathError(error) ==
    error.cls \in {"InvalidPathError", "BackslashInPathError", "ParentDirectoryReferenceError"}

\* poll() results and response statuses
NO_REQUEST == "no_request"
CONNECTION_TIMED_OUT == "connection_timed_out"
REQUEST_HANDLED_NO_RESPONSE == "request_handled_no_response"
REQUEST_HANDLED_RESPONSE_SENT == "request_handled_response_sent"

SWITCHING_PROTOCOLS_101 == "101 Switching Protocols"
OK_200 == "200 OK"
FOUND_302 == "302 Found"
BAD_REQUEST_400 == "400 Bad Request"
UNAUTHORIZED_401 == "401 Unauthorized"
FORBIDDEN_403 == "403 Forbidden"
NOT_FOUND_404 == "404 Not Found"

(***************************************************************************)
(* Requests and responses. A request is what Request parsed from the       *)
(* header bytes; a header is present or not, and has a value. A response   *)
(* is its class, its status and what decides the bytes it writes.          *)
(***************************************************************************)
NoHeader == [present |-> FALSE, value |-> <<>>]
Header(value) == [present |-> TRUE, value |-> value]

NoRequest == [method |-> None, path |-> <<>>, authorization |-> NoHeader,
              handshake |-> FALSE]

NoResponse == [kind |-> None, status |-> None, www_authenticate |-> FALSE,
               head_only |-> FALSE, body |-> FALSE]

\* Response.__init__ and the subclasses' __init__: body says whether the body has bytes.
Response(kind, status, body) ==
    [kind |-> kind, status |-> status, www_authenticate |-> FALSE,
     head_only |-> FALSE, body |-> body]

KeepsConnection(response) == response.kind \in {"SSEResponse", "Websocket"}

\* The file a FileResponse is about: the root directory and the path under it.
NoFile == [root |-> None, filename |-> <<>>]

\* What a call of start(), stop() or poll() did; the fields of a call that did
\* not get to a step keep these values.
NoCall ==
    [op |-> "idle",
     was_stopped |-> FALSE,       \* Server.stopped when the call began
     result |-> None,             \* the value poll() returned
     raised |-> NoError,          \* the exception the call raised
     accept_called |-> FALSE,     \* poll() called accept()
     accepted |-> FALSE,          \* accept() returned a connection
     header |-> "not_read",       \* "empty", "bytes" or "error": what the header read gave
     request |-> NoRequest,
     handler_invoked |-> FALSE,   \* the route's handler was called
     returned_none |-> FALSE,     \* _handle_request returned None
     response |-> NoResponse,     \* the response _handle_request returned
     send_runs |-> 0,             \* calls of response._send()
     send_error |-> NoError,      \* the error conn.send raised inside _send_bytes
     propagated |-> NoError,      \* the exception that reached poll()'s except clause
     fs_calls |-> <<>>,           \* os.stat and open calls, in order
     file |-> NoFile]             \* the file of the FileResponse that was built

Idle == [op |-> "idle"]

\* The state of a Server after __init__ (no root_path), nothing called yet.
NoSocket == [exists |-> FALSE, bound |-> FALSE, listening |-> FALSE,
             blocking |-> TRUE, closed |-> FALSE]
\* A connection: wire is what was written to it, a token for each write (H the
\* header block, B body bytes, C a chunk, E an event, F a frame); kept is the class of
\* the response that keeps it open.
NoConn == [open |-> FALSE, blocking |-> TRUE, reset |-> FALSE, wire |-> <<>>, kept |-> None]

ServerInit ==
    /\ stopped = TRUE
    /\ host = None
    /\ port = None
    /\ sock = NoSocket
    /\ auths = <<>>
    /\ routes = <<>>
    /\ conn = NoConn
    /\ last = NoCall

serverVars == <<stopped, host, port, sock, auths, root_path, conn, last>>

\* Server.route(path, methods, append_slash=...)(func): the Route is built, and so
\* validated, before it is appended.
route(path, methods, func, append_slash) ==
    LET error == validate_path(path, append_slash) IN
    /\ routes' = IF error = None
                 THEN routes_extend(routes, <<Route(path, methods, func, append_slash)>>)
                 ELSE routes
    /\ out' = [op |-> "route", raised |-> error]

\* Server.add_routes(new): new is a list of Route objects.
add_routes(new) ==
    /\ routes' = routes_extend(routes, new)
    /\ out' = [op |-> "add_routes", raised |-> None]

-----------------------------------------------------------------------------
(***************************************************************************)
(* Server.start and Server.stop. The environment decides whether           *)
(* getaddrinfo and the creation of the listening socket succeed.           *)
(***************************************************************************)
ListeningSocket == [exists |-> TRUE, bound |-> TRUE, listening |-> TRUE,
                    blocking |-> FALSE, closed |-> FALSE]

\* Server._verify_can_start(host, port)
verify_can_start(h, p, getaddrinfo_ok) ==
    IF h = None \/ p = None THEN Raised("RuntimeError")
    ELSE IF ~getaddrinfo_ok THEN Raised("RuntimeError")
    ELSE NoError

\* Server._create_server_socket: socket(), bind(), listen(10), setblocking(False);
\* an OSError of any of the calls leaves start() without a socket to assign.
create_server_socket(socket_ok) ==
    IF socket_ok THEN [raised |-> NoError, sock |-> ListeningSocket]
    ELSE [raised |-> OSError(ENOTCONN), sock |-> NoSocket]

\* Server.start(host, port)
start(h, p, getaddrinfo_ok, socket_ok) ==
    LET error == verify_can_start(h, p, getaddrinfo_ok)
        created == create_server_socket(socket_ok)
    IN /\ host' = IF error = NoError THEN h ELSE host
       /\ port' = IF error = NoError THEN p ELSE port
       /\ stopped' = IF error = NoError THEN FALSE ELSE stopped
       /\ sock' = IF error = NoError /\ created.raised = NoError THEN created.sock ELSE sock
       /\ last' = [NoCall EXCEPT !.op = "start", !.was_stopped = stopped,
                                 !.raised = IF error # NoError THEN error ELSE created.raised]
       /\ UNCHANGED <<auths, root_path, routes, conn>>

\* Server.stop(): _sock is None until the first start() that created a socket.
stop ==
    /\ host' = None
    /\ port' = None
    /\ stopped' = TRUE
    /\ sock' = IF sock.exists THEN [sock EXCEPT !.closed = TRUE, !.listening = FALSE] ELSE sock
    /\ last' = [NoCall EXCEPT !.op = "stop", !.was_stopped = stopped,
                              !.raised = IF sock.exists THEN NoError
                                         ELSE Raised("AttributeError")]
    /\ UNCHANGED <<auths, root_path, routes, conn>>

\* Server.require_authentication(auths)
require_authentication(new) ==
    /\ auths' = new
    /\ UNCHANGED <<stopped, host, port, sock, root_path, routes, conn, last>>

(***************************************************************************)
(* authentication.py and Headers.get_directive                             *)
(***************************************************************************)
\* str.strip(chars)
RECURSIVE LStrip(_, _)
LStrip(s, chars) == IF s # <<>> /\ Head(s) \in chars THEN LStrip(Tail(s), chars) ELSE s

RECURSIVE RStrip(_, _)
RStrip(s, chars) ==
    IF s # <<>> /\ s[Len(s)] \in chars THEN RStrip(SubSeq(s, 1, Len(s) - 1), chars) ELSE s

Strip(s, chars) == RStrip(LStrip(s, chars), chars)

\* Headers.get_directive(name): a missing header gives the default NoHeader
get_directive(header) ==
    IF ~header.present THEN NoHeader
    ELSE Header(Strip(Split(header.value, ";")[1], {"\"", " "}))

\* check_authentication(request, auths): auths holds str(auth) of each credential
check_authentication(request, credentials) ==
    LET auth_header == get_directive(request.authorization) IN
    IF ~auth_header.present THEN FALSE
    ELSE \E i \in DOMAIN credentials : auth_header.value = credentials[i]

(***************************************************************************)
(* FileResponse. stat is what os.stat finds at the full path: "regular",   *)
(* "directory" or "absent".                                                *)
(***************************************************************************)
Backslash == "\\"

Range(f) == { f[i] : i \in DOMAIN f }

IndexHtml == <<"i", "n", "d", "e", "x", ".", "h", "t", "m", "l">>

\* _verify_file_path_is_valid, were only the backslash looked for.
verify_file_path_backslash_only(file_path) ==
    IF Contains(file_path, <<Backslash>>) THEN Raised("BackslashInPathError") ELSE NoError

\* FileResponse._verify_file_path_is_valid(file_path)
verify_file_path_is_valid(file_path) ==
    IF Contains(file_path, <<Backslash>>) THEN Raised("BackslashInPathError")
    ELSE IF \E part \in Range(Split(file_path, "/")) : part = <<".", ".">>
         THEN Raised("ParentDirectoryReferenceError")
    ELSE NoError

\* FileResponse._combine_path(root_path, filename): the root (no trailing "/"
\* among the roots of the model) and the part after it.
combine_path(root, filename) ==
    [root |-> root,
     filename |-> IF StartsWith(filename, <<"/">>) THEN Tail(filename) ELSE filename]

\* FileResponse._get_file_length(file_path)
get_file_length(stat) ==
    IF stat = "regular" THEN NoError ELSE Raised("FileNotExistsError")

\* FileResponse.__init__ after the check of the name (invalid is what it raised)
\* and the root were settled.
FileResponseAt(invalid, root, name, head_only, missing) ==
    IF invalid # NoError
    THEN [raised |-> invalid, fs_calls |-> <<>>, file |-> NoFile, response |-> NoResponse]
    ELSE IF root = None
    THEN [raised |-> Raised("AttributeError"), fs_calls |-> <<>>, file |-> NoFile,
          response |-> NoResponse]
    ELSE [raised |-> missing,
          fs_calls |-> <<"stat">>,
          file |-> combine_path(root, name),
          response |-> IF missing # NoError THEN NoResponse
                       ELSE [Response("FileResponse", OK_200, TRUE)
                                EXCEPT !.head_only = head_only]]

\* FileResponse.__init__(request, filename, root_path, head_only=, safe=)
FileResponse(filename, response_root, head_only, safe, stat) ==
    FileResponseAt(IF safe THEN verify_file_path_is_valid(filename) ELSE NoError,
                   IF response_root # None THEN response_root ELSE root_path,
                   IF EndsWith(filename, <<"/">>) THEN filename \o IndexHtml ELSE filename,
                   head_only,
                   get_file_length(stat))

(***************************************************************************)
(* The route handler is application code: hb says what it does with the    *)
(* request (hb.act) and, when it raises, what it raises (hb.error).        *)
(***************************************************************************)
NoOutcome == [response |-> NoResponse, raised |-> NoError, handler_invoked |-> FALSE,
              fs_calls |-> <<>>, early |-> <<>>, unblock |-> FALSE, file |-> NoFile]

\* Websocket.__init__(request): the handshake check, then setblocking(False)
Websocket(request) ==
    IF ~request.handshake THEN [NoOutcome EXCEPT !.raised = Raised("ValueError")]
    ELSE [NoOutcome EXCEPT !.response = Response("Websocket", SWITCHING_PROTOCOLS_101, FALSE),
                           !.unblock = TRUE]

\* The handler's outcome, file and ws being the FileResponse and the Websocket it
\* would build; early is what the handler itself wrote to the connection before it
\* returned (SSEResponse.send_event, Websocket.send_message).
handler_outcome(hb, file, ws) ==
    CASE hb.act = "None" -> NoOutcome
      [] hb.act = "raise" -> [NoOutcome EXCEPT !.raised = hb.error]
      [] hb.act \in {"Response", "JSONResponse", "ChunkedResponse"} ->
             [NoOutcome EXCEPT !.response = Response(hb.act, OK_200, TRUE)]
      [] hb.act = "Redirect" ->
             [NoOutcome EXCEPT !.response = Response(hb.act, FOUND_302, FALSE)]
      [] hb.act \in {"FileResponse", "FileResponseUnsafe"} ->
             [NoOutcome EXCEPT !.response = file.response, !.raised = file.raised,
                               !.fs_calls = file.fs_calls, !.file = file.file]
      [] hb.act = "SSEResponse" ->
             [NoOutcome EXCEPT !.response = Response("SSEResponse", OK_200, FALSE)]
      [] hb.act = "SSEResponseEvent" ->
             [NoOutcome EXCEPT !.response = Response("SSEResponse", OK_200, FALSE),
                               !.early = <<"E">>]
      [] hb.act = "Websocket" -> ws
      [] hb.act = "WebsocketMessage" ->
             [ws EXCEPT !.early = IF ws.raised = NoError THEN <<"F">> ELSE <<>>]

\* handler(request)
handler(request, hb, stat) ==
    [handler_outcome(hb,
                     FileResponse(request.path, None, FALSE, hb.act = "FileResponse", stat),
                     Websocket(request))
        EXCEPT !.handler_invoked = TRUE]

\* _handle_request's try block, were the credentials not looked at.
handle_request_try_open(request, found, authorized, handled, file) ==
    IF found.handler # None THEN handled
    ELSE IF root_path = None
    THEN [NoOutcome EXCEPT !.raised = Raised("ServingFilesDisabledError")]
    ELSE IF request.method \in {GET, HEAD}
    THEN [NoOutcome EXCEPT !.response = file.response, !.raised = file.raised,
                           !.fs_calls = file.fs_calls, !.file = file.file]
    ELSE [NoOutcome EXCEPT !.response = Response("Response", BAD_REQUEST_400, FALSE)]

\* _handle_request's try block, were the file served whatever the method.
handle_request_try_any_method(request, found, authorized, handled, file) ==
    IF auths # <<>> /\ ~authorized
    THEN [NoOutcome EXCEPT !.raised = Raised("AuthenticationError")]
    ELSE IF found.handler # None THEN handled
    ELSE IF root_path = None
    THEN [NoOutcome EXCEPT !.raised = Raised("ServingFilesDisabledError")]
    ELSE [NoOutcome EXCEPT !.response = file.response, !.raised = file.raised,
                           !.fs_calls = file.fs_calls, !.file = file.file]

\* The try block of Server._handle_request; authorized, handled and file are what
\* the authentication check, the handler and FileResponse give when they are called.
handle_request_try(request, found, authorized, handled, file) ==
    IF auths # <<>> /\ ~authorized
    THEN [NoOutcome EXCEPT !.raised = Raised("AuthenticationError")]
    ELSE IF found.handler # None THEN handled
    ELSE IF root_path = None
    THEN [NoOutcome EXCEPT !.raised = Raised("ServingFilesDisabledError")]
    ELSE IF request.method \in {GET, HEAD}
    THEN [NoOutcome EXCEPT !.response = file.response, !.raised = file.raised,
                           !.fs_calls = file.fs_calls, !.file = file.file]
    ELSE [NoOutcome EXCEPT !.response = Response("Response", BAD_REQUEST_400, FALSE)]

\* The except clauses of Server._handle_request
handle_request_except(attempt) ==
    IF attempt.raised.cls = "AuthenticationError"
    THEN [attempt EXCEPT !.raised = NoError,
                         !.response = [Response("Response", UNAUTHORIZED_401, FALSE)
                                          EXCEPT !.www_authenticate = TRUE]]
    ELSE IF IsInvalidPathError(attempt.raised)
    THEN [attempt EXCEPT !.raised = NoError,
                         !.response = Response("Response", FORBIDDEN_403, TRUE)]
    ELSE IF attempt.raised.cls \in {"FileNotExistsError", "ServingFilesDisabledError"}
    THEN [attempt EXCEPT !.raised = NoError,
                         !.response = Response("Response", NOT_FOUND_404, TRUE)]
    ELSE attempt

\* Server._handle_request(request, handler): found is what _find_handler gave.
handle_request(request, found, hb, stat) ==
    handle_request_except(
        handle_request_try(request, found,
                           check_authentication(request, auths),
                           handler(request, hb, stat),
                           FileResponse(request.path, None, request.method = HEAD, TRUE, stat)))

(***************************************************************************)
(* Sending. A fault is the first conn.send call of the response that       *)
(* raises: the at-th write raises fault.error (at = 0: no call raises).    *)
(* Once the peer has reset the connection every later conn.send raises     *)
(* too: fault.after, ECONNRESET again or a BrokenPipeError.                *)
(***************************************************************************)
NoFault == [at |-> 0, error |-> NoError, after |-> NoError]

IsReset(error) == IsOSError(error) /\ error.errno = ECONNRESET

\* What the i-th conn.send call of the response raises.
send_raises(i, fault) ==
    IF fault.at = 0 \/ i < fault.at THEN NoError
    ELSE IF i = fault.at THEN fault.error
    ELSE IF IsReset(fault.error) THEN fault.after
    ELSE NoError

\* The buffers response._send() hands to _send_bytes, in order; an empty buffer
\* makes no conn.send call and is left out.
Writes(response) ==
    CASE response.kind \in {"Response", "JSONResponse"} ->
            IF response.body THEN <<"H", "B">> ELSE <<"H">>
      [] response.kind = "FileResponse" ->
            IF response.head_only THEN <<"H">> ELSE <<"H", "B">>
      [] response.kind = "ChunkedResponse" -> <<"H", "C", "C">>
      [] response.kind \in {"Redirect", "SSEResponse", "Websocket"} -> <<"H">>

\* Response._send_bytes for the i-th buffer: EAGAIN is tried again (and then
\* succeeds), ECONNRESET ends the write silently, anything else is raised.
send_bytes_on(exc) ==
    IF exc = NoError THEN [written |-> TRUE, raised |-> NoError]
    ELSE IF IsOSError(exc) /\ exc.errno = EAGAIN
    THEN [written |-> TRUE, raised |-> NoError]
    ELSE IF IsOSError(exc) /\ exc.errno = ECONNRESET
    THEN [written |-> FALSE, raised |-> NoError]
    ELSE [written |-> FALSE, raised |-> exc]

send_bytes(i, fault) == send_bytes_on(send_raises(i, fault))

RECURSIVE send_from(_, _, _, _)
send_from(ws, i, fault, wire) ==
    IF i > Len(ws) THEN [wire |-> wire, raised |-> NoError]
    ELSE IF send_bytes(i, fault).raised # NoError
    THEN [wire |-> wire, raised |-> send_bytes(i, fault).raised]
    ELSE send_from(ws, i + 1, fault,
                   IF send_bytes(i, fault).written THEN Append(wire, ws[i]) ELSE wire)

\* response._send(): the writes, the open() of a file response between the
\* header and the body, and _close_connection() for all but SSEResponse and Websocket.
send_done(response, r, header) ==
    [wire |-> r.wire,
     raised |-> r.raised,
     closed |-> r.raised = NoError /\ ~KeepsConnection(response),
     fs_calls |-> IF response.kind = "FileResponse" /\ ~response.head_only
                     /\ header.raised = NoError
                  THEN <<"open">> ELSE <<>>]

send(response, fault, wire) ==
    send_done(response, send_from(Writes(response), 1, fault, wire), send_bytes(1, fault))

(***************************************************************************)
(* Server.poll                                                             *)
(***************************************************************************)
\* poll()'s except clause, were a reset by the peer not among the errors it answers
\* with NO_REQUEST.
poll_except_reset_raised(call, c, has_conn, error) ==
    IF IsException(error) /\ IsOSError(error)
       /\ error.errno \in {EAGAIN, MBEDTLS_ERR_SSL_FATAL_ALERT_MESSAGE}
    THEN [conn |-> c, last |-> [call EXCEPT !.propagated = error, !.result = NO_REQUEST]]
    ELSE [conn |-> IF has_conn /\ IsException(error) THEN [c EXCEPT !.open = FALSE] ELSE c,
          last |-> [call EXCEPT !.propagated = error, !.raised = error]]

\* The except clause of poll(): c is the accepted connection (has_conn) or the
\* connection variable as it was.
poll_except(call, c, has_conn, error) ==
    IF ~IsException(error)
    THEN [conn |-> c, last |-> [call EXCEPT !.propagated = error, !.raised = error]]
    ELSE IF IsOSError(error)
            /\ error.errno \in {EAGAIN, ECONNRESET, MBEDTLS_ERR_SSL_FATAL_ALERT_MESSAGE}
    THEN [conn |-> c, last |-> [call EXCEPT !.propagated = error, !.result = NO_REQUEST]]
    ELSE IF error.cls = "SSLError" /\ error.reason = "SSLV3_ALERT_CERTIFICATE_UNKNOWN"
    THEN [conn |-> c, last |-> [call EXCEPT !.propagated = error, !.result = NO_REQUEST]]
    ELSE [conn |-> IF has_conn THEN [c EXCEPT !.open = FALSE] ELSE c,
          last |-> [call EXCEPT !.propagated = error, !.raised = error]]

IsTimeout(error) == IsOSError(error) /\ error.errno = ETIMEDOUT

\* Server._receive_header_bytes: rcv.raised is what recv_into raised, and
\* rcv.header_bytes the bytes that were received before; a timeout ends the read.
receive_header_bytes(rcv) ==
    [raised |-> IF IsTimeout(rcv.raised) THEN NoError ELSE rcv.raised,
     bytes |-> rcv.header_bytes]

\* _receive_request, were the header bytes handed to Request even when there are none.
receive_request_always_parsed(rcv) ==
    IF receive_header_bytes(rcv).raised # NoError
    THEN [raised |-> rcv.raised, request |-> NoRequest, none |-> FALSE]
    ELSE IF ~rcv.parseable
    THEN [raised |-> Raised("ValueError"), request |-> NoRequest, none |-> FALSE]
    ELSE [raised |-> NoError, request |-> rcv.request, none |-> FALSE]

\* Server._receive_request: rcv.parseable says whether Request and the
\* Content-Length parse, rcv.request is what they give.
receive_request(rcv) ==
    IF receive_header_bytes(rcv).raised # NoError
    THEN [raised |-> rcv.raised, request |-> NoRequest, none |-> FALSE]
    ELSE IF receive_header_bytes(rcv).bytes = <<>>
    THEN [raised |-> NoError, request |-> NoRequest, none |-> TRUE]
    ELSE IF ~rcv.parseable
    THEN [raised |-> Raised("ValueError"), request |-> NoRequest, none |-> FALSE]
    ELSE [raised |-> NoError, request |-> rcv.request, none |-> FALSE]

\* poll() from response._send() on: c is the connection after the handler,
\* sent what _send() did.
poll_send(call, c, response, fault, sent) ==
    IF sent.raised # NoError
    THEN poll_except([call EXCEPT !.fs_calls = @ \o sent.fs_calls],
                     [c EXCEPT !.wire = sent.wire], TRUE, sent.raised)
    ELSE [conn |-> [c EXCEPT !.wire = sent.wire,
                             !.reset = (fault.at \in 1..Len(Writes(response))
                                        /\ IsReset(fault.error)),
                             !.open = ~sent.closed,
                             !.kept = IF KeepsConnection(response) THEN response.kind
                                      ELSE None],
          last |-> [call EXCEPT !.fs_calls = @ \o sent.fs_calls,
                                !.result = REQUEST_HANDLED_RESPONSE_SENT]]

\* poll() from the return of _handle_request on: handled is what it did.
poll_respond(call, c, handled, fault) ==
    IF handled.raised # NoError THEN poll_except(call, c, TRUE, handled.raised)
    ELSE IF handled.response = NoResponse
    THEN [conn |-> [c EXCEPT !.open = FALSE],
          last |-> [call EXCEPT !.result = REQUEST_HANDLED_NO_RESPONSE]]
    ELSE poll_send([call EXCEPT !.response = handled.response,
                                !.send_runs = 1,
                                !.send_error = IF fault.at <= Len(Writes(handled.response))
                                               THEN send_raises(fault.at, fault)
                                               ELSE NoError],
                   c, handled.response, fault,
                   send(handled.response, fault, c.wire))

\* poll() from _find_handler on.
poll_handle(call, c, request, handled, fault) ==
    poll_respond([call EXCEPT !.request = request,
                              !.handler_invoked = handled.handler_invoked,
                              !.returned_none = (handled.raised = NoError
                                                 /\ handled.response = NoResponse),
                              !.fs_calls = handled.fs_calls,
                              !.file = handled.file],
                 [c EXCEPT !.wire = handled.early, !.blocking = ~handled.unblock],
                 handled, fault)

\* poll() from the return of _receive_request on: received is what it gave.
poll_receive(call, c, received, hb, fault, stat) ==
    IF received.raised # NoError THEN poll_except(call, c, TRUE, received.raised)
    ELSE IF received.none
    THEN [conn |-> [c EXCEPT !.open = FALSE],
          last |-> [call EXCEPT !.result = CONNECTION_TIMED_OUT]]
    ELSE poll_handle(call, c, received.request,
                     handle_request(received.request,
                                    find_handler(routes, received.request.method,
                                                 received.request.path),
                                    hb, stat),
                     fault)

\* poll() from accept() on: accept_error is what accept() raised.
poll_accept(call, accept_error, rcv, hb, fault, stat) ==
    IF accept_error # NoError THEN poll_except(call, conn, FALSE, accept_error)
    ELSE poll_receive([call EXCEPT !.accepted = TRUE,
                                   !.header = IF rcv.raised # NoError /\ ~IsTimeout(rcv.raised)
                                              THEN "error"
                                              ELSE IF rcv.header_bytes = <<>> THEN "empty"
                                              ELSE "bytes"],
                      [NoConn EXCEPT !.open = TRUE],
                      receive_request(rcv), hb, fault, stat)

\* The body of poll() once the server is known not to be stopped: accept() on a
\* server without socket, or with a closed one, raises.
poll_try(acc, rcv, hb, fault, stat) ==
    poll_accept([NoCall EXCEPT !.op = "poll", !.accept_called = TRUE],
                IF ~sock.exists THEN Raised("AttributeError")
                ELSE IF sock.closed THEN OSError(ENOTCONN)
                ELSE acc,
                rcv, hb, fault, stat)

poll_return(r) ==
    /\ conn' = r.conn
    /\ last' = r.last
    /\ UNCHANGED <<stopped, host, port, sock, auths, root_path, routes>>

\* Server.poll()
poll(acc, rcv, hb, fault, stat) ==
    poll_return(IF stopped
                THEN [conn |-> conn,
                      last |-> [NoCall EXCEPT !.op = "poll", !.was_stopped = TRUE,
                                              !.raised = Raised("ServerStoppedError")]]
                ELSE poll_try(acc, rcv, hb, fault, stat))

\* A write to a kept connection: nothing arrives once the peer has reset it.
kept_write(token) == IF conn.reset THEN conn.wire ELSE Append(conn.wire, token)

\* SSEResponse.send_event(data) on the connection its response keeps
send_event ==
    /\ conn.kept = "SSEResponse"
    /\ conn.open
    /\ Len(conn.wire) < MaxWire
    /\ conn' = [conn EXCEPT !.wire = kept_write("E")]
    /\ UNCHANGED <<stopped, host, port, sock, auths, root_path, routes, last>>

\* Websocket.send_message(message) on the connection its response keeps
send_message ==
    /\ conn.kept = "Websocket"
    /\ conn.open
    /\ Len(conn.wire) < MaxWire
    /\ conn' = [conn EXCEPT !.wire = kept_write("F")]
    /\ UNCHANGED <<stopped, host, port, sock, auths, root_path, routes, last>>

\* SSEResponse.close() and Websocket.close(): a last write, then the connection
\* is closed.
close ==
    /\ conn.kept \in {"SSEResponse", "Websocket"}
    /\ conn.open
    /\ conn' = [conn EXCEPT !.wire = kept_write(IF conn.kept = "SSEResponse" THEN "E" ELSE "F"),
                            !.open = FALSE]
    /\ UNCHANGED <<stopped, host, port, sock, auths, root_path, routes, last>>


-----------------------------------------------------------------------------
(***************************************************************************)
(* SpecMatch: one route is registered with Server.route and one request is *)
(* matched against it. The template, the flag, the methods and the request *)
(* are drawn by the initial state.                                         *)
(***************************************************************************)
TemplatePieces ==
    { <<"/">>, <<"a">>, <<".">>, <<"<", "a", ">">>, <<"<", ">">>,
      <<"/", "a">>, <<"/", "<", "a", ">">>, <<"/", "<", "b", ">">>,
      <<"/", ".", ".", ".">>, <<"/", ".", ".", ".", ".">> }

Templates == { Concat(ps) : ps \in UNION { [1..n -> TemplatePieces] : n \in 1..MaxPieces } }

PathChars == {"/", "a", "b"}

\* The request paths: they start with "/".
RequestPaths ==
    { <<"/">> \o p : p \in UNION { [1..n -> PathChars] : n \in 0..(MaxPathLen - 1) } }

Methods == {GET, POST}
RouteMethodSets == { {GET}, {GET, POST} }

InitMatch ==
    /\ ServerInit
    /\ root_path = None
    /\ arg \in [path : Templates, append_slash : BOOLEAN, methods : RouteMethodSets,
                method : Methods, req_path : RequestPaths]
    /\ out = Idle

\* @server.route(arg.path, arg.methods, append_slash=arg.append_slash) on a handler
RouteStep ==
    /\ out.op = "idle"
    /\ route(arg.path, arg.methods, "h1", arg.append_slash)
    /\ UNCHANGED <<serverVars, arg>>

\* Server._find_handler(arg.method, arg.req_path), and Route.match on the same request
MatchStep ==
    /\ out.op = "route"
    /\ routes # <<>>
    /\ out' = [op |-> "match",
               result |-> matches(routes[1], arg.method, arg.req_path),
               result_match |-> match(routes[1], Route(arg.req_path, {arg.method}, None, FALSE)),
               found |-> find_handler(routes, arg.method, arg.req_path)]
    /\ UNCHANGED <<serverVars, routes, arg>>

NextMatch == RouteStep \/ MatchStep

SpecMatch == InitMatch /\ [][NextMatch]_vars


-----------------------------------------------------------------------------
(***************************************************************************)
(* The template language as the specification describes it: the segments   *)
(* of a template between its slashes are literals, <name>, "..." or "....".*)
(***************************************************************************)
\* The segments of a string that starts with "/".
Segments(s) == Tail(Split(s, "/"))

IsParameter(seg) ==
    /\ Len(seg) >= 3
    /\ seg[1] = "<"
    /\ seg[Len(seg)] = ">"
    /\ \A i \in 2..(Len(seg) - 1) : seg[i] \in WordChars

SegmentKind(seg) ==
    IF seg = Dots3 THEN "one"
    ELSE IF seg = Dots4 THEN "many"
    ELSE IF IsParameter(seg) THEN "parameter"
    ELSE IF (\A i \in 1..Len(seg) : seg[i] \notin {"<", ">"}) /\ ~Contains(seg, Dots3)
         THEN "literal"
    ELSE "other"

\* A template every segment of which is of one of the four described kinds.
WellFormedTemplate(tpl) ==
    /\ StartsWith(tpl, <<"/">>)
    /\ \A i \in 1..Len(Segments(tpl)) : SegmentKind(Segments(tpl)[i]) # "other"

\* The described matches of template segments ts against path segments ps: the set
\* of the sequences of values that the <name> segments take, empty when none.
RECURSIVE DescribedBindings(_, _)
DescribedBindings(ts, ps) ==
    IF ts = <<>> THEN (IF ps = <<>> THEN {<<>>} ELSE {})
    ELSE IF ps = <<>> THEN {}
    ELSE LET kind == SegmentKind(Head(ts)) IN
         CASE kind = "literal" ->
                IF Head(ps) = Head(ts) THEN DescribedBindings(Tail(ts), Tail(ps)) ELSE {}
           [] kind = "parameter" ->
                IF Head(ps) # <<>>
                THEN { <<Head(ps)>> \o b : b \in DescribedBindings(Tail(ts), Tail(ps)) }
                ELSE {}
           [] kind = "one" ->
                IF Head(ps) # <<>> THEN DescribedBindings(Tail(ts), Tail(ps)) ELSE {}
           [] kind = "many" ->
                UNION { IF n = 1 /\ Head(ps) = <<>> THEN {}
                        ELSE DescribedBindings(Tail(ts), SubSeq(ps, n + 1, Len(ps)))
                        : n \in 1..Len(ps) }
           [] OTHER -> {}

DescribedPathBindings(tpl, path) ==
    IF StartsWith(path, <<"/">>) THEN DescribedBindings(Segments(tpl), Segments(path)) ELSE {}

\* With append_slash the same path with one more "/" at its end is accepted too.
DescribedMatch(tpl, append_slash, methods, method, path) ==
    IF method \notin methods THEN {}
    ELSE DescribedPathBindings(tpl, path)
         \cup (IF append_slash /\ EndsWith(path, <<"/">>)
               THEN DescribedPathBindings(tpl, SubSeq(path, 1, Len(path) - 1))
               ELSE {})

\* The names of the <name> segments of a template, in order.
DescribedNames(tpl) ==
    LET ps == SelectSeq(Segments(tpl), IsParameter)
    IN [i \in 1..Len(ps) |-> StripEnds(ps[i])]

AgreesWithDescription(result) ==
    LET bs == DescribedMatch(arg.path, arg.append_slash, arg.methods, arg.method, arg.req_path)
        names == DescribedNames(arg.path)
    IN /\ result[1] = (bs # {})
       /\ result[1] => \E b \in bs : result[2] = DictZip(names, b, Len(names))
       /\ ~result[1] => result[2] = EmptyDict

\* C9: a route matches a request exactly when the method is one of the route's
\* methods and the whole path matches the template (a literal segment matches only
\* itself, <name> one non-empty segment, "..." one segment, "...." one or more
\* segments, append_slash one more trailing "/"); on a match each name is bound to the
\* substring at its position, on a mismatch the parameter map is empty.
C9_MatchesAsDescribed ==
    (out.op = "match" /\ WellFormedTemplate(arg.path)) => AgreesWithDescription(out.result)

\* A parameter token <name> with a neighbour that is not "/".
UnflankedParameter(path) ==
    \E i \in 1..Len(path) : \E k \in 1..Len(path) :
        /\ i + k + 1 <= Len(path)
        /\ path[i] = "<"
        /\ path[i + k + 1] = ">"
        /\ \A j \in (i + 1)..(i + k) : path[j] \in WordChars
        /\ \/ i > 1 /\ path[i - 1] # "/"
           \/ i + k + 1 < Len(path) /\ path[i + k + 2] # "/"

DescribedInvalid(path, append_slash) ==
    \/ ~StartsWith(path, <<"/">>)
    \/ Contains(path, <<"<", ">">>)
    \/ UnflankedParameter(path)
    \/ Contains(path, <<"/", "/">>)
    \/ EndsWith(path, <<"/">>) /\ append_slash

\* C10: creating a route fails and registers nothing when the path does not start
\* with "/", contains "<>", has a parameter token not flanked by "/" on both sides,
\* contains "//", or ends in "/" while append_slash is set.
C10_InvalidPathRejected ==
    (out.op = "route" /\ DescribedInvalid(arg.path, arg.append_slash))
        => (out.raised # None /\ routes = <<>>)


-----------------------------------------------------------------------------
(***************************************************************************)
(* SpecRoutes: routes are registered with Server.route and                 *)
(* Server.add_routes, and requests are looked up. arg is the log of the    *)
(* Route objects in the order of the calls that registered them.           *)
(***************************************************************************)
MaxRoutes == 2       \* at most this many routes are registered

Handlers == {"h1", "h2"}

RegisteredTemplates ==
    { <<"/", "a">>, <<"/", "<", "a", ">">>, <<"/", ".", ".", ".", ".">>, <<"a">> }

LookupPaths == { <<"/", "a">>, <<"/", "b">>, <<"/", "a", "/", "b">> }

\* The Route objects an application builds, with Route(...) or @as_route(...).
RouteObjects ==
    { Route(t, ms, h, FALSE) :
        t \in { x \in RegisteredTemplates : validate_path(x, FALSE) = None },
        ms \in RouteMethodSets, h \in Handlers }

InitRoutes ==
    /\ ServerInit
    /\ root_path = None
    /\ arg = <<>>
    /\ out = Idle

RegisterRoute ==
    \E t \in RegisteredTemplates, ms \in RouteMethodSets, h \in Handlers :
        /\ Len(routes) < MaxRoutes
        /\ route(t, ms, h, FALSE)
        /\ arg' = IF validate_path(t, FALSE) = None
                  THEN Append(arg, Route(t, ms, h, FALSE)) ELSE arg
        /\ UNCHANGED serverVars

AddRoutes ==
    \E n \in 1..MaxRoutes : \E new \in [1..n -> RouteObjects] :
        /\ Len(routes) + n <= MaxRoutes
        /\ add_routes(new)
        /\ arg' = arg \o new
        /\ UNCHANGED serverVars

FindHandler ==
    \E m \in Methods, p \in LookupPaths :
        /\ out' = [op |-> "find", method |-> m, path |-> p,
                   found |-> find_handler(routes, m, p),
                   found_match |-> Routes_find_handler(routes, Route(p, {m}, None, FALSE))]
        /\ UNCHANGED <<serverVars, routes, arg>>

NextRoutes == RegisterRoute \/ AddRoutes \/ FindHandler

SpecRoutes == InitRoutes /\ [][NextRoutes]_vars

\* The indexes, in the order of registration, of the routes that match a request.
MatchingRegistered(method, path) ==
    { i \in 1..Len(arg) : matches(arg[i], method, path)[1] }

FirstOf(S) == CHOOSE i \in S : \A j \in S : i <= j

\* C8: when a request matches several registered routes the handler found is that of
\* the route registered first, whatever the other routes are; when no registered
\* route matches, no handler is found.
C8_FirstRegisteredWins ==
    out.op = "find" =>
        LET S == MatchingRegistered(out.method, out.path) IN
        /\ (S = {}) => (out.found = NoHandler /\ out.found_match = NoHandler)
        /\ (S # {}) => /\ out.found.handler = arg[FirstOf(S)].handler
                       /\ out.found.url_parameters
                            = matches(arg[FirstOf(S)], out.method, out.path)[2]
                       /\ out.found_match.handler = arg[FirstOf(S)].handler

\* Two registered routes with different handlers match the looked-up request.
C8_Witness ==
    /\ out.op = "find"
    /\ \E i, j \in MatchingRegistered(out.method, out.path) :
          i < j /\ arg[i].handler # arg[j].handler /\ out.found.handler = arg[i].handler

-----------------------------------------------------------------------------
(***************************************************************************)
(* Spec: a Server without root_path and without credentials is started,    *)
(* stopped and polled; one route is registered; the responses that keep    *)
(* their connection are written to and closed. What the sockets, the       *)
(* request and the handler do is drawn at each poll().                     *)
(***************************************************************************)
Hosts == {None, "0.0.0.0"}
Ports == {None, "5000"}

CERTIFICATE_UNKNOWN == SSLError("SSLV3_ALERT_CERTIFICATE_UNKNOWN")

\* The errors poll() answers with NO_REQUEST, and some of the others.
TransientErrors == {OSError(EAGAIN), OSError(ECONNRESET),
                    OSError(MBEDTLS_ERR_SSL_FATAL_ALERT_MESSAGE), CERTIFICATE_UNKNOWN}
OtherErrors == {OSError(ENOTCONN), Raised("ValueError"), KeyboardInterrupt}

NoReceive == [raised |-> NoError, header_bytes |-> <<>>, parseable |-> FALSE,
              request |-> NoRequest]
Received(request) == [raised |-> NoError, header_bytes |-> <<"h">>, parseable |-> TRUE,
                      request |-> request]

\* What the reads give when they give no request: an error, a timeout before any
\* byte or after some, or bytes that Request does not parse.
ReceiveFailures ==
    { [NoReceive EXCEPT !.raised = e] :
        e \in TransientErrors \cup OtherErrors \cup {OSError(ETIMEDOUT)} }
        \cup { [NoReceive EXCEPT !.header_bytes = <<"x">>],
               [NoReceive EXCEPT !.header_bytes = <<"x">>, !.raised = OSError(ETIMEDOUT)] }

Requests ==
    [method : {GET, POST}, path : {<<"/", "a">>, <<"/", "b">>},
     authorization : {NoHeader}, handshake : BOOLEAN]

HandlerActs == {"None", "Response", "JSONResponse", "ChunkedResponse", "Redirect",
                "FileResponse", "FileResponseUnsafe", "SSEResponse", "SSEResponseEvent",
                "Websocket", "WebsocketMessage"}

NoBehaviour == [act |-> "None", error |-> NoError]

HandlerBehaviours ==
    { [act |-> a, error |-> NoError] : a \in HandlerActs }
        \cup { [act |-> "raise", error |-> e] :
                 e \in TransientErrors \cup OtherErrors \cup {Raised("AuthenticationError")} }

SendFaults ==
    {NoFault}
        \cup { [at |-> k, error |-> e, after |-> NoError] :
                 k \in 1..2, e \in {OSError(EAGAIN), OSError(ENOTCONN),
                                    OSError(MBEDTLS_ERR_SSL_FATAL_ALERT_MESSAGE)} }
        \cup { [at |-> k, error |-> OSError(ECONNRESET), after |-> a] :
                 k \in 1..2, a \in {OSError(ECONNRESET), BrokenPipeError} }

Stats == {"regular", "directory", "absent"}

\* The draws that differ in something the poll() looks at: the handler's
\* behaviour when a route has the request, the handshake headers when the handler
\* builds a Websocket, the file when it builds a FileResponse, the send fault when
\* there is a response to send.
Routed(q) == find_handler(routes, q.method, q.path).handler # None

BehavioursFor(q) ==
    IF ~Routed(q) THEN {NoBehaviour}
    ELSE IF q.handshake
    THEN { b \in HandlerBehaviours : b.act \in {"Websocket", "WebsocketMessage"} }
    ELSE HandlerBehaviours

StatsFor(b) == IF b.act \in {"FileResponse", "FileResponseUnsafe"} THEN Stats ELSE {"regular"}

FaultsFor(q, b) ==
    IF Routed(q) /\ b.act \in {"None", "raise"} THEN {NoFault} ELSE SendFaults

InitServer ==
    /\ ServerInit
    /\ root_path = None
    /\ arg = Idle
    /\ out = Idle

Start ==
    \E h \in Hosts, p \in Ports, getaddrinfo_ok \in BOOLEAN, socket_ok \in BOOLEAN :
        /\ start(h, p, getaddrinfo_ok, socket_ok)
        /\ UNCHANGED <<arg, out>>

Stop == stop /\ UNCHANGED <<arg, out>>

Register ==
    /\ Len(routes) < 1
    /\ route(<<"/", "a">>, {GET, POST}, "h1", FALSE)
    /\ UNCHANGED <<serverVars, arg>>

PollNoConnection ==
    \E e \in TransientErrors \cup OtherErrors :
        /\ poll(e, NoReceive, NoBehaviour, NoFault, "regular")
        /\ UNCHANGED <<arg, out>>

PollNoRequest ==
    \E r \in ReceiveFailures :
        /\ poll(NoError, r, NoBehaviour, NoFault, "regular")
        /\ UNCHANGED <<arg, out>>

PollRequest ==
    \E q \in Requests :
        \E b \in BehavioursFor(q) :
            \E f \in FaultsFor(q, b), s \in StatsFor(b) :
                /\ poll(NoError, Received(q), b, f, s)
                /\ UNCHANGED <<arg, out>>

SendEvent == send_event /\ UNCHANGED <<arg, out>>

SendMessage == send_message /\ UNCHANGED <<arg, out>>

Close == close /\ UNCHANGED <<arg, out>>

Next ==
    \/ Start
    \/ Stop
    \/ Register
    \/ PollNoConnection
    \/ PollNoRequest
    \/ PollRequest
    \/ SendEvent
    \/ SendMessage
    \/ Close

Spec == InitServer /\ [][Next]_vars

Polled == last.op = "poll" /\ ~last.was_stopped

\* C1: after a poll() that accepted a connection, the connection is closed, unless
\* the response was an SSEResponse or a Websocket, which keeps it: on the timeout,
\* after a handler that returned None, after a sent response, after an error answered
\* with NO_REQUEST and after a re-raised exception.
C1_AcceptedConnectionClosed ==
    (Polled /\ last.accepted /\ ~KeepsConnection(last.response)) => ~conn.open

\* C2: a poll() of a server that is not stopped ends in exactly one way: a result
\* or an exception. It is NO_REQUEST when accept() finds no pending connection,
\* CONNECTION_TIMED_OUT exactly when the header read gave no bytes,
\* REQUEST_HANDLED_NO_RESPONSE exactly when the handling returned None, and then
\* nothing is sent and the connection is closed, and REQUEST_HANDLED_RESPONSE_SENT
\* only after the response's send ran, once.
C2_PollOutcome ==
    Polled =>
        /\ (last.result = None) # (last.raised = NoError)
        /\ last.result \in {None, NO_REQUEST, CONNECTION_TIMED_OUT,
                            REQUEST_HANDLED_NO_RESPONSE, REQUEST_HANDLED_RESPONSE_SENT}
        /\ (~last.accepted /\ last.propagated = OSError(EAGAIN)) => last.result = NO_REQUEST
        /\ (last.result = CONNECTION_TIMED_OUT) <=> (last.header = "empty")
        /\ (last.result = REQUEST_HANDLED_NO_RESPONSE) <=> last.returned_none
        /\ last.returned_none => (last.send_runs = 0 /\ ~conn.open /\ conn.kept = None)
        /\ (last.result = REQUEST_HANDLED_RESPONSE_SENT) => last.send_runs = 1
        /\ last.send_runs <= 1

C2_Witness ==
    /\ Polled
    /\ last.handler_invoked
    /\ last.result = REQUEST_HANDLED_NO_RESPONSE

\* An I/O error classified as EAGAIN, ECONNRESET or a TLS handshake alert.
Transient(error) ==
    \/ IsOSError(error)
       /\ error.errno \in {EAGAIN, ECONNRESET, MBEDTLS_ERR_SSL_FATAL_ALERT_MESSAGE}
    \/ error = CERTIFICATE_UNKNOWN

\* The error of the poll(): the one that reached its except clause, or else the
\* one conn.send raised.
ErrorOf(call) == IF call.propagated # NoError THEN call.propagated ELSE call.send_error

\* C3 as stated: an error classified as EAGAIN, ECONNRESET or TLS alert, raised
\* at any step (accept, receive, handler, send) makes poll() return NO_REQUEST;
\* every other exception is re-raised after the accepted connection was closed.
C3_ErrorsAtAnyStep ==
    (Polled /\ ErrorOf(last) # NoError /\ IsException(ErrorOf(last))) =>
        IF Transient(ErrorOf(last))
        THEN last.result = NO_REQUEST /\ last.raised = NoError
        ELSE last.raised = ErrorOf(last) /\ (last.accepted => ~conn.open)

\* C3, amended: such an error makes poll() return NO_REQUEST when it propagates out
\* of accept, receive, the handler or the response's send; EAGAIN and ECONNRESET of
\* conn.send do not propagate (the write is tried again, or ended silently) and
\* poll() returns REQUEST_HANDLED_RESPONSE_SENT unless a later write raises; every
\* other exception that "except Exception" catches is re-raised after the accepted
\* connection was closed.
C3_PropagatedErrors ==
    Polled =>
        /\ (last.propagated # NoError /\ IsException(last.propagated)) =>
              IF Transient(last.propagated)
              THEN last.result = NO_REQUEST /\ last.raised = NoError
              ELSE /\ last.raised = last.propagated
                   /\ last.result = None
                   /\ last.accepted => ~conn.open
        /\ (IsOSError(last.send_error) /\ last.send_error.errno \in {EAGAIN, ECONNRESET}) =>
              \/ last.propagated = NoError /\ last.result = REQUEST_HANDLED_RESPONSE_SENT
              \/ last.propagated = BrokenPipeError /\ last.raised = BrokenPipeError

C3_Witness ==
    /\ Polled
    /\ last.send_runs = 1
    /\ last.propagated = OSError(MBEDTLS_ERR_SSL_FATAL_ALERT_MESSAGE)
    /\ last.result = NO_REQUEST

\* C4: poll() raises ServerStoppedError, without calling accept(), exactly when the
\* server is stopped; host and port are None exactly when it is stopped; a server
\* that is not stopped has a bound, listening, non-blocking socket.
C4_Lifecycle ==
    /\ stopped <=> (host = None /\ port = None)
    /\ last.op = "poll" =>
          (last.was_stopped <=>
              (last.raised = Raised("ServerStoppedError") /\ ~last.accept_called))
    /\ ~stopped => (sock.exists /\ sock.bound /\ sock.listening /\ ~sock.blocking
                    /\ ~sock.closed)

\* C5: what is written to a connection has the header block at most once, and
\* nothing (body bytes, event, frame) before the header block.
C5_HeadersFirstAndOnce ==
    \A i \in 1..Len(conn.wire) :
        IF conn.wire[i] = "H"
        THEN \A j \in 1..(i - 1) : conn.wire[j] # "H"
        ELSE \E j \in 1..(i - 1) : conn.wire[j] = "H"

-----------------------------------------------------------------------------
(***************************************************************************)
(* SpecHandle: a Server is built with a root path or without one, gets its *)
(* credentials and a route, is started, and serves one request. arg holds  *)
(* the configuration, the request, what the handler does and what os.stat  *)
(* finds at the file's path.                                               *)
(***************************************************************************)
Credential1 == <<"T", " ", "x">>
Credential2 == <<"T", " ", "T">>

HeaderChars == {"T", " ", "x", ";", "\""}

MaxHeaderLen == 4    \* an Authorization header value has at most this many characters

HeaderValues == UNION { [1..n -> HeaderChars] : n \in 0..MaxHeaderLen }

FileChars == {"/", ".", Backslash, "a"}

MaxFilePathLen == 5  \* the path of a request for a file has at most this many characters

FilePaths ==
    { <<"/">> \o p : p \in UNION { [1..n -> FileChars] : n \in 0..(MaxFilePathLen - 1) } }

Root == "/www"

\* Requests that differ in the Authorization header, to a server with credentials
\* or without.
AuthInputs ==
    [auths : {<<>>, <<Credential1>>, <<Credential1, Credential2>>},
     root_path : {None, Root},
     routed : BOOLEAN,
     request : [method : {GET, POST}, path : {<<"/", "a">>},
                authorization : {NoHeader} \cup { Header(v) : v \in HeaderValues },
                handshake : {FALSE}],
     hb : {[act |-> "Response", error |-> NoError]},
     stat : {"regular"}]

\* Requests that differ in the path, served as files by the fallback or by a handler.
FileInputs ==
    [auths : {<<>>},
     root_path : {None, Root},
     routed : BOOLEAN,
     request : [method : {GET, HEAD, POST}, path : FilePaths,
                authorization : {NoHeader}, handshake : {FALSE}],
     hb : {[act |-> "FileResponse", error |-> NoError],
           [act |-> "FileResponseUnsafe", error |-> NoError]},
     stat : Stats]

InitHandle ==
    /\ arg \in AuthInputs \cup FileInputs
    /\ ServerInit
    /\ root_path = arg.root_path
    /\ out = Idle

\* server.require_authentication(arg.auths)
Authenticate ==
    /\ stopped
    /\ last.op = "idle"
    /\ auths # arg.auths
    /\ require_authentication(arg.auths)
    /\ UNCHANGED <<arg, out>>

\* @server.route("/....", [GET, HEAD, POST]): the route has every path but "/".
RegisterHandler ==
    /\ stopped
    /\ last.op = "idle"
    /\ auths = arg.auths
    /\ arg.routed
    /\ routes = <<>>
    /\ route(<<"/", ".", ".", ".", ".">>, {GET, HEAD, POST}, "h1", FALSE)
    /\ UNCHANGED <<serverVars, arg>>

StartHandle ==
    /\ stopped
    /\ last.op = "idle"
    /\ auths = arg.auths
    /\ arg.routed => routes # <<>>
    /\ start("0.0.0.0", "5000", TRUE, TRUE)
    /\ UNCHANGED <<arg, out>>

PollHandle ==
    /\ last.op = "start"
    /\ poll(NoError, Received(arg.request), arg.hb, NoFault, arg.stat)
    /\ UNCHANGED <<arg, out>>

NextHandle == Authenticate \/ RegisterHandler \/ StartHandle \/ PollHandle

SpecHandle == InitHandle /\ [][NextHandle]_vars

\* The request was answered with this status and nothing of it reached a handler
\* or the filesystem.
Refused(status) ==
    /\ last.result = REQUEST_HANDLED_RESPONSE_SENT
    /\ last.response.kind = "Response"
    /\ last.response.status = status
    /\ ~last.handler_invoked
    /\ last.fs_calls = <<>>

IsCredential(value) == \E i \in DOMAIN auths : auths[i] = value

\* C6 as stated: with credentials required server-wide, a request whose
\* Authorization header is absent or is not equal to one of the credentials is
\* answered 401 with a WWW-Authenticate header, no handler is invoked and no file read.
C6_HeaderNotEqualRefused ==
    (Polled /\ auths # <<>>
        /\ (~last.request.authorization.present
            \/ ~IsCredential(last.request.authorization.value)))
        => (Refused(UNAUTHORIZED_401) /\ last.response.www_authenticate)

\* The part of a header value before its first ";", without the quotes and the
\* spaces at its ends.
RECURSIVE BeforeSemicolon(_)
BeforeSemicolon(value) ==
    IF value = <<>> \/ Head(value) = ";" THEN <<>>
    ELSE <<Head(value)>> \o BeforeSemicolon(Tail(value))

RECURSIVE Trimmed(_)
Trimmed(value) ==
    IF value = <<>> THEN value
    ELSE IF Head(value) \in {" ", "\""} THEN Trimmed(Tail(value))
    ELSE IF value[Len(value)] \in {" ", "\""} THEN Trimmed(SubSeq(value, 1, Len(value) - 1))
    ELSE value

\* C6, amended: with a non-empty list of credentials required server-wide, a request
\* whose Authorization header is absent, or whose directive (the value before the
\* first ";", quotes and spaces stripped) is none of the credentials, is answered 401
\* with a WWW-Authenticate header, no handler is invoked and no file read.
C6_DirectiveNotEqualRefused ==
    (Polled /\ auths # <<>>
        /\ (~last.request.authorization.present
            \/ ~IsCredential(Trimmed(BeforeSemicolon(last.request.authorization.value)))))
        => (Refused(UNAUTHORIZED_401) /\ last.response.www_authenticate)

C6_Witness ==
    /\ Polled
    /\ auths # <<>>
    /\ routes # <<>>
    /\ last.request.authorization.present
    /\ Refused(UNAUTHORIZED_401)

\* A segment of the path, between "/"s, is "..".
HasParentSegment(path) ==
    \E i \in 1..(Len(path) - 1) :
        /\ path[i] = "." /\ path[i + 1] = "."
        /\ i = 1 \/ path[i - 1] = "/"
        /\ i + 1 = Len(path) \/ path[i + 2] = "/"

HasBackslash(path) == \E i \in 1..Len(path) : path[i] = Backslash

\* The request is served from a file with safe=True: by the fallback (no route, a
\* root path, GET or HEAD) or by a handler that returns FileResponse(request, path).
ServedSafely ==
    /\ Polled
    /\ auths = <<>>
    /\ root_path # None
    /\ IF routes = <<>> \/ last.request.path = <<"/">>
       THEN last.request.method \in {GET, HEAD}
       ELSE arg.hb.act = "FileResponse"

\* C7: with safe=True a file path with a backslash anywhere or a segment ".." is
\* rejected before any filesystem call and answered 403; a path that does not exist
\* or is not a regular file is answered 404.
C7_SafeFilePaths ==
    ServedSafely =>
        IF HasBackslash(last.request.path) \/ HasParentSegment(last.request.path)
        THEN /\ last.fs_calls = <<>>
             /\ last.response.status = FORBIDDEN_403
             /\ last.result = REQUEST_HANDLED_RESPONSE_SENT
        ELSE arg.stat # "regular" =>
                /\ last.response.status = NOT_FOUND_404
                /\ last.fs_calls = <<"stat">>
                /\ last.result = REQUEST_HANDLED_RESPONSE_SENT

C7_Witness ==
    /\ ServedSafely
    /\ routes = <<>>
    /\ ~HasBackslash(last.request.path)
    /\ HasParentSegment(last.request.path)
    /\ last.response.status = FORBIDDEN_403
    /\ last.fs_calls = <<>>

\* The request of the poll() matched no route.
Unrouted ==
    /\ Polled
    /\ last.request # NoRequest
    /\ find_handler(routes, last.request.method, last.request.path).handler = None

\* The file the fallback serves for a request path: the path under root_path,
\* index.html in it when the path ends with "/".
FallbackFile(path) ==
    [root |-> root_path,
     filename |-> Tail(path) \o (IF path[Len(path)] = "/" THEN IndexHtml ELSE <<>>)]

\* The request was answered from this file: a 200 FileResponse, whose headers are
\* written first, and the file opened for its body unless the method is HEAD.
AnsweredFromFile(file) ==
    /\ last.result = REQUEST_HANDLED_RESPONSE_SENT
    /\ last.response.kind = "FileResponse"
    /\ last.response.status = OK_200
    /\ last.file = file
    /\ IF last.request.method = HEAD
       THEN conn.wire = <<"H">> /\ last.fs_calls = <<"stat">>
       ELSE conn.wire = <<"H", "B">> /\ last.fs_calls = <<"stat", "open">>

AnsweredWith(status) ==
    /\ last.result = REQUEST_HANDLED_RESPONSE_SENT
    /\ last.response.kind = "Response"
    /\ last.response.status = status

PassesAuthentication ==
    \/ auths = <<>>
    \/ /\ last.request.authorization.present
       /\ IsCredential(Trimmed(BeforeSemicolon(last.request.authorization.value)))

-----------------------------------------------------------------------------
(***************************************************************************)
(* request.py: Request's parse of the received bytes. The bytes are ASCII  *)
(* characters, so decode("utf-8") gives the same characters.               *)
(***************************************************************************)
Whitespace == {" ", "\t", "\n", "\r"}

CRLF == <<"\r", "\n">>

EmptyLine == CRLF \o CRLF

\* bytes.find(sub): the index, from 0, of the first occurrence, or -1
find(s, sub) ==
    IF ~Contains(s, sub) THEN -1
    ELSE (CHOOSE i \in 1..Len(s) :
            IsPrefixAt(s, i, sub) /\ \A j \in 1..(i - 1) : ~IsPrefixAt(s, j, sub)) - 1

\* s[:k], k negative counting from the end
SliceTo(s, k) ==
    IF k >= 0 THEN SubSeq(s, 1, Min(k, Len(s)))
    ELSE IF Len(s) + k > 0 THEN SubSeq(s, 1, Len(s) + k)
    ELSE <<>>

\* s[k:] for k >= 0
SliceFrom(s, k) == SubSeq(s, k + 1, Len(s))

\* Request._raw_header_bytes
raw_header_bytes(raw_request) == SliceTo(raw_request, find(raw_request, EmptyLine))

\* str.split(sep, 1)
SplitOnce(s, sep) ==
    IF find(s, sep) = -1 THEN <<s>>
    ELSE <<SliceTo(s, find(s, sep)), SliceFrom(s, find(s, sep) + Len(sep))>>

\* str.split(): the runs of characters that are not whitespace
RECURSIVE SplitWordsFrom(_, _, _)
SplitWordsFrom(s, i, cur) ==
    IF i > Len(s) THEN (IF cur = <<>> THEN <<>> ELSE <<cur>>)
    ELSE IF s[i] \in Whitespace
    THEN (IF cur = <<>> THEN <<>> ELSE <<cur>>) \o SplitWordsFrom(s, i + 1, <<>>)
    ELSE SplitWordsFrom(s, i + 1, Append(cur, s[i]))

SplitWords(s) == SplitWordsFrom(s, 1, <<>>)

\* str.splitlines(): a line ends at "\r\n", "\r" or "\n"; no empty last line
RECURSIVE SplitLinesFrom(_, _, _)
SplitLinesFrom(s, i, cur) ==
    IF i > Len(s) THEN (IF cur = <<>> THEN <<>> ELSE <<cur>>)
    ELSE IF IsPrefixAt(s, i, CRLF) THEN <<cur>> \o SplitLinesFrom(s, i + 2, <<>>)
    ELSE IF s[i] \in {"\r", "\n"} THEN <<cur>> \o SplitLinesFrom(s, i + 1, <<>>)
    ELSE SplitLinesFrom(s, i + 1, Append(cur, s[i]))

SplitLines(s) == SplitLinesFrom(s, 1, <<>>)

\* str.lower(), for the letters of the model
LowerOf(c) ==
    CASE c = "A" -> "a" [] c = "E" -> "e" [] c = "G" -> "g" [] c = "T" -> "t"
      [] c = "S" -> "s" [] c = "U" -> "u" [] c = "W" -> "w"
      [] c = "C" -> "c" [] c = "L" -> "l" [] c = "D" -> "d"
      [] OTHER -> c

Lower(s) == [i \in DOMAIN s |-> LowerOf(s[i])]

\* Headers.__init__(headers: str): a line without ": " does not unpack
HeaderFields(lines) ==
    IF \E i \in DOMAIN lines : Len(SplitOnce(lines[i], <<":", " ">>)) # 2
    THEN [raised |-> Raised("ValueError"), fields |-> <<>>]
    ELSE [raised |-> NoError,
          fields |-> [i \in DOMAIN lines |->
                        [name |-> Lower(SplitOnce(lines[i], <<":", " ">>)[1]),
                         value |-> SplitOnce(lines[i], <<":", " ">>)[2]]]]

Headers(headers_string) == HeaderFields(SplitLines(Strip(headers_string, Whitespace)))

\* Headers.get(name): the value of the first field of that name
HeadersGet(fields, name) ==
    IF \A i \in DOMAIN fields : fields[i].name # name THEN NoHeader
    ELSE Header(fields[CHOOSE i \in DOMAIN fields :
                         /\ fields[i].name = name
                         /\ \A j \in 1..(i - 1) : fields[j].name # name].value)

NoParse == [raised |-> NoError, method |-> <<>>, path |-> <<>>, fields |-> <<>>]

\* _parse_request_header once the start line is split in words: three of them,
\* the path being the second up to its first "?"
parse_start_line(words, headers) ==
    IF Len(words) # 3 THEN [NoParse EXCEPT !.raised = Raised("ValueError")]
    ELSE IF headers.raised # NoError THEN [NoParse EXCEPT !.raised = headers.raised]
    ELSE [raised |-> NoError, method |-> words[1],
          path |-> SplitOnce(words[2], <<"?">>)[1], fields |-> headers.fields]

\* _parse_request_header once the header bytes are split at the first "\r\n"
parse_header_parts(parts) ==
    IF Len(parts) # 2 THEN [NoParse EXCEPT !.raised = Raised("ValueError")]
    ELSE parse_start_line(SplitWords(Strip(parts[1], Whitespace)), Headers(parts[2]))

\* Request._parse_request_header(header_bytes)
parse_request_header(header_bytes) ==
    parse_header_parts(SplitOnce(Strip(header_bytes, Whitespace), CRLF))

\* Request.__init__(server, connection, client_address, raw_request): whatever
\* the parse raises is raised as ValueError
Request(raw_request) == parse_request_header(raw_header_bytes(raw_request))

-----------------------------------------------------------------------------
(***************************************************************************)
(* SpecReceive: a server with the route "/a" is started and polled once;   *)
(* the connection delivers the bytes arg.raw, drawn by the initial state,  *)
(* and then nothing more: the header read ends at the empty line or at the *)
(* read timeout.                                                           *)
(***************************************************************************)
MaxRawPieces == 4    \* the received bytes are the concatenation of at most this many pieces

RawPieces ==
    { <<"G", "E", "T", " ", "/", "a", " ", "1">>, CRLF, EmptyLine,
      <<"a", ":", " ", "b">>, <<"x">>, <<" ">> }

RawRequests ==
    { Concat(ps) : ps \in UNION { [1..n -> RawPieces] : n \in 0..MaxRawPieces } }

\* The method and the path of the parsed request, as the routes have them.
MethodOf(word) ==
    IF word = <<"G", "E", "T">> THEN GET
    ELSE IF word = <<"P", "O", "S", "T">> THEN POST
    ELSE "OTHER"

RequestOf(parsed) ==
    [method |-> MethodOf(parsed.method), path |-> parsed.path,
     authorization |-> HeadersGet(parsed.fields, <<"a", "u", "t", "h", "o", "r", "i", "z",
                                                   "a", "t", "i", "o", "n">>),
     handshake |-> FALSE]

\* What the reads of the connection give for these bytes: recv_into raises
\* ETIMEDOUT when the bytes end before an empty line.
ReceivedBytes(raw, parsed) ==
    [raised |-> IF Contains(raw, EmptyLine) THEN NoError ELSE OSError(ETIMEDOUT),
     header_bytes |-> raw,
     parseable |-> parsed.raised = NoError,
     request |-> IF parsed.raised = NoError THEN RequestOf(parsed) ELSE NoRequest]

InitReceive ==
    /\ arg \in [raw : RawRequests]
    /\ ServerInit
    /\ root_path = None
    /\ out = Idle

RegisterReceive ==
    /\ stopped
    /\ last.op = "idle"
    /\ routes = <<>>
    /\ route(<<"/", "a">>, {GET}, "h1", FALSE)
    /\ UNCHANGED <<serverVars, arg>>

StartReceive ==
    /\ stopped
    /\ last.op = "idle"
    /\ routes # <<>>
    /\ start("0.0.0.0", "5000", TRUE, TRUE)
    /\ UNCHANGED <<arg, out>>

PollReceive ==
    /\ last.op = "start"
    /\ \E hb \in {[act |-> "Response", error |-> NoError], NoBehaviour} :
          poll(NoError, ReceivedBytes(arg.raw, Request(arg.raw)), hb, NoFault, "regular")
    /\ UNCHANGED <<arg, out>>

NextReceive == RegisterReceive \/ StartReceive \/ PollReceive

SpecReceive == InitReceive /\ [][NextReceive]_vars

\* The poll() read bytes that end, at the read timeout, without an empty line.
NoEmptyLineReceived ==
    /\ Polled
    /\ last.accepted
    /\ arg.raw # <<>>
    /\ ~Contains(arg.raw, EmptyLine)

\* C12: when the bytes received before the read timeout do not contain
\* "\r\n\r\n", no Request is produced and no route handler is invoked, and poll()
\* either sends a 400 response or closes the connection (the ValueError of the
\* failed decoding may reach the caller once the connection is closed).
C12_NoDelimiterNoRequest ==
    NoEmptyLineReceived =>
        /\ last.request = NoRequest
        /\ ~last.handler_invoked
        /\ \/ last.response.status = BAD_REQUEST_400
           \/ ~conn.open
        /\ last.raised \in {NoError, Raised("ValueError")}

-----------------------------------------------------------------------------
(***************************************************************************)
(* response.py: Websocket frames. Bytes are the integers 0..255, a frame   *)
(* and the stream of a connection are sequences of them.                   *)
(***************************************************************************)
FIN == 128
CONT == 0
TEXT == 1
BINARY == 2
CLOSE == 8
PING == 9
PONG == 10

DefaultBufferSize == 1024

\* a & b, a | b and a ^ b on natural numbers
RECURSIVE BitAnd(_, _)
BitAnd(a, b) ==
    IF a = 0 \/ b = 0 THEN 0
    ELSE (a % 2) * (b % 2) + 2 * BitAnd(a \div 2, b \div 2)

RECURSIVE BitXor(_, _)
BitXor(a, b) ==
    IF a = 0 THEN b
    ELSE IF b = 0 THEN a
    ELSE ((a + b) % 2) + 2 * BitXor(a \div 2, b \div 2)

BitOr(a, b) == a + b - BitAnd(a, b)

\* int.to_bytes(length, "big") and int.from_bytes(bytes, "big")
RECURSIVE to_bytes(_, _)
to_bytes(n, length) ==
    IF length = 0 THEN <<>> ELSE Append(to_bytes(n \div 256, length - 1), n % 256)

RECURSIVE from_bytes(_)
from_bytes(bytes) ==
    IF bytes = <<>> THEN 0
    ELSE 256 * from_bytes(SubSeq(bytes, 1, Len(bytes) - 1)) + bytes[Len(bytes)]

\* _prepare_frame, were a length of 126 still written in the second byte alone.
prepare_frame_short_126(opcode, message) ==
    <<BitOr(FIN, opcode)>>
        \o (IF Len(message) < 127 THEN <<Len(message)>>
            ELSE IF Len(message) < 65536 THEN <<126>> \o to_bytes(Len(message), 2)
            ELSE <<127>> \o to_bytes(Len(message), 8))
        \o message

\* Websocket._prepare_frame(opcode, message)
prepare_frame(opcode, message) ==
    <<BitOr(FIN, opcode)>>
        \o (IF Len(message) < 126 THEN <<Len(message)>>
            ELSE IF Len(message) < 65536 THEN <<126>> \o to_bytes(Len(message), 2)
            ELSE <<127>> \o to_bytes(Len(message), 8))
        \o message

\* connection.recv_into(buffer, nbytes) on a non-blocking socket whose peer has
\* sent the bytes of stream: more bytes than the buffer holds are refused with
\* ValueError, no bytes at all give EAGAIN, else the bytes that are there, nbytes
\* at most, are read.
recv_into(stream, buffer_size, nbytes) ==
    IF nbytes > buffer_size
    THEN [raised |-> Raised("ValueError"), bytes |-> <<>>, rest |-> stream]
    ELSE IF stream = <<>>
    THEN [raised |-> OSError(EAGAIN), bytes |-> <<>>, rest |-> stream]
    ELSE [raised |-> NoError,
          bytes |-> SubSeq(stream, 1, Min(nbytes, Len(stream))),
          rest |-> SubSeq(stream, Min(nbytes, Len(stream)) + 1, Len(stream))]

NotRead(stream) == [raised |-> NoError, bytes |-> <<>>, rest |-> stream]

\* Websocket._parse_frame_header(header)
parse_frame_header(header) ==
    [fin |-> BitAnd(header[1], FIN),
     opcode |-> BitAnd(header[1], 15),
     has_mask |-> BitAnd(header[2], 128),
     length |-> IF BitAnd(header[2], 127) = 126 THEN -2
                ELSE IF BitAnd(header[2], 127) = 127 THEN -8
                ELSE BitAnd(header[2], 127)]

NoFrame == [raised |-> NoError, opcode |-> CONT, payload |-> <<>>, rest |-> <<>>]

\* _read_frame: the loop that reads the payload
RECURSIVE read_payload(_, _, _, _)
read_payload(stream, length, buffer_size, payload) ==
    IF length <= 0 THEN [raised |-> NoError, bytes |-> payload, rest |-> stream]
    ELSE IF recv_into(stream, buffer_size, length).raised # NoError
    THEN [recv_into(stream, buffer_size, length) EXCEPT !.bytes = payload]
    ELSE read_payload(recv_into(stream, buffer_size, length).rest,
                      length - Len(recv_into(stream, buffer_size, length).bytes),
                      buffer_size,
                      payload \o recv_into(stream, buffer_size, length).bytes)

\* _read_frame from the read of the payload on: the mask is taken off
read_frame_payload(h, mask, p) ==
    IF p.raised # NoError THEN [NoFrame EXCEPT !.raised = p.raised, !.rest = p.rest]
    ELSE IF h.has_mask # 0 /\ p.bytes # <<>> /\ Len(mask) < 4
    THEN [NoFrame EXCEPT !.raised = Raised("IndexError"), !.rest = p.rest]
    ELSE [raised |-> NoError,
          opcode |-> h.opcode,
          payload |-> IF h.has_mask = 0 THEN p.bytes
                      ELSE [i \in 1..Len(p.bytes) |->
                              BitXor(p.bytes[i], mask[((i - 1) % 4) + 1])],
          rest |-> p.rest]

\* _read_frame from the read of the mask on
read_frame_mask(h, length, m, buffer_size) ==
    IF m.raised # NoError THEN [NoFrame EXCEPT !.raised = m.raised, !.rest = m.rest]
    ELSE read_frame_payload(h, m.bytes, read_payload(m.rest, length, buffer_size, <<>>))

\* _read_frame from the read of the extended length on
read_frame_length(h, l, buffer_size) ==
    IF l.raised # NoError THEN [NoFrame EXCEPT !.raised = l.raised, !.rest = l.rest]
    ELSE read_frame_mask(h,
                         IF h.length < 0 THEN from_bytes(l.bytes) ELSE h.length,
                         IF h.has_mask # 0 THEN recv_into(l.rest, buffer_size, 4)
                         ELSE NotRead(l.rest),
                         buffer_size)

\* _read_frame once the header is parsed: a continuation frame and a CLOSE frame
\* are returned at once
read_frame_parsed(h, rest, buffer_size) ==
    IF h.fin # FIN /\ h.opcode = CONT THEN [NoFrame EXCEPT !.rest = rest]
    ELSE IF h.fin = FIN /\ h.opcode = CLOSE
    THEN [NoFrame EXCEPT !.opcode = CLOSE, !.rest = rest]
    ELSE read_frame_length(h,
                           IF h.length < 0 THEN recv_into(rest, buffer_size, -h.length)
                           ELSE NotRead(rest),
                           buffer_size)

\* _read_frame from the read of the two header bytes on
read_frame_header(r, buffer_size) ==
    IF r.raised # NoError THEN [NoFrame EXCEPT !.raised = r.raised, !.rest = r.rest]
    ELSE IF Len(r.bytes) < 2 THEN [NoFrame EXCEPT !.raised = Raised("IndexError"),
                                                  !.rest = r.rest]
    ELSE read_frame_parsed(parse_frame_header(r.bytes), r.rest, buffer_size)

\* Websocket._read_frame(): stream is what the connection has to read
read_frame(stream, buffer_size) ==
    read_frame_header(recv_into(stream, buffer_size, 2), buffer_size)

-----------------------------------------------------------------------------
(***************************************************************************)
(* SpecFrame: a frame is built by _prepare_frame, masked as a client masks *)
(* the frames it sends, and read by _read_frame of a Websocket with the    *)
(* buffer size arg.buffer_size.                                            *)
(***************************************************************************)
FrameLengths == {0, 1, 125, 126, 65535, 65536}

MaskKeys == {<<0, 0, 0, 0>>, <<1, 2, 3, 4>>, <<255, 128, 7, 64>>}

BufferSizes == {DefaultBufferSize, 65536}

\* The payload of the frame: arg.length bytes
PayloadOf(a) == [i \in 1..a.length |-> (7 * i + a.fill) % 256]

\* The bytes of the frame before its payload
FrameHeaderLen(frame) == IF frame[2] = 126 THEN 4 ELSE IF frame[2] = 127 THEN 10 ELSE 2

\* A client's masking of a frame: the mask bit is set, the key follows the length
\* and each payload byte is xor-ed with the key's byte of its position modulo 4.
ClientMasked(frame, key) ==
    <<frame[1], frame[2] + 128>>
        \o SubSeq(frame, 3, FrameHeaderLen(frame))
        \o key
        \o [i \in 1..(Len(frame) - FrameHeaderLen(frame)) |->
              BitXor(frame[FrameHeaderLen(frame) + i], key[((i - 1) % 4) + 1])]

InitFrame ==
    /\ arg \in [opcode : {TEXT, BINARY}, length : FrameLengths, fill : {0, 200},
                key : MaskKeys, buffer_size : BufferSizes]
    /\ ServerInit
    /\ root_path = None
    /\ out = Idle

PrepareFrame ==
    /\ out.op = "idle"
    /\ out' = [op |-> "prepare_frame",
               length |-> Len(prepare_frame(arg.opcode, PayloadOf(arg)))]
    /\ UNCHANGED <<serverVars, routes, arg>>

\* What _read_frame gave, and how many bytes it left unread.
ReadOf(frame) ==
    [op |-> "read_frame", raised |-> frame.raised, opcode |-> frame.opcode,
     payload |-> frame.payload, unread |-> Len(frame.rest)]

ReadFrame ==
    /\ out.op = "prepare_frame"
    /\ out' = ReadOf(read_frame(ClientMasked(prepare_frame(arg.opcode, PayloadOf(arg)),
                                            arg.key),
                               arg.buffer_size))
    /\ UNCHANGED <<serverVars, routes, arg>>

NextFrame == PrepareFrame \/ ReadFrame

SpecFrame == InitFrame /\ [][NextFrame]_vars

\* C18: for the opcodes TEXT and BINARY and a payload of length 0, 1, 125, 126,
\* 65535 or 65536, the frame built by _prepare_frame and masked with a 4-byte key
\* is read by _read_frame as the same opcode and the same payload.
C18_FrameRoundTrip ==
    out.op = "read_frame" =>
        /\ out.raised = NoError
        /\ out.opcode = arg.opcode
        /\ out.payload = PayloadOf(arg)

\* The same, for the frames whose payload the buffer of the Websocket holds.
FrameRoundTripInBuffer ==
    (out.op = "read_frame" /\ arg.length <= arg.buffer_size) =>
        /\ out.raised = NoError
        /\ out.opcode = arg.opcode
        /\ out.payload = PayloadOf(arg)
        /\ out.unread = 0

-----------------------------------------------------------------------------
(***************************************************************************)
(* response.py: the Websocket and the SSEResponse a handler has built. A   *)
(* Websocket is the record of its closed flag and its connection; wire is  *)
(* the sequence of the buffers written to the connection. What the calls   *)
(* of conn.send of one operation raise is tx; rx is what the reads give.   *)
(***************************************************************************)
EBADF == 9

NoneResult == [type |-> "None", value |-> <<>>]
Str(value) == [type |-> "str", value |-> value]
Bytes(value) == [type |-> "bytes", value |-> value]

\* bytes.decode(): UTF-8 with sequences of one and two bytes (the payloads of the
\* model have no longer ones); the code points, or a UnicodeError.
RECURSIVE Utf8Valid(_)
Utf8Valid(bytes) ==
    IF bytes = <<>> THEN TRUE
    ELSE IF bytes[1] < 128 THEN Utf8Valid(Tail(bytes))
    ELSE IF bytes[1] \in 194..223 /\ Len(bytes) >= 2 /\ bytes[2] \in 128..191
    THEN Utf8Valid(SubSeq(bytes, 3, Len(bytes)))
    ELSE FALSE

RECURSIVE decode(_)
decode(bytes) ==
    IF bytes = <<>> THEN <<>>
    ELSE IF bytes[1] < 128 THEN <<bytes[1]>> \o decode(Tail(bytes))
    ELSE <<(bytes[1] - 192) * 64 + (bytes[2] - 128)>> \o decode(SubSeq(bytes, 3, Len(bytes)))

\* str.encode(): UTF-8 of code points below 2048
RECURSIVE encode(_)
encode(points) ==
    IF points = <<>> THEN <<>>
    ELSE IF points[1] < 128 THEN <<points[1]>> \o encode(Tail(points))
    ELSE <<192 + (points[1] \div 64), 128 + (points[1] % 64)>> \o encode(Tail(points))

\* What conn.send raises: a closed socket has no descriptor to write to.
socket_send(c, tx) == IF ~c.open THEN OSError(EBADF) ELSE tx

\* conn.send calls _send_bytes makes for one buffer: a second one after EAGAIN
send_calls(exc) == IF IsOSError(exc) /\ exc.errno = EAGAIN THEN 2 ELSE 1

\* Response._send_bytes(conn, buffer) on the connection c
write_on(c, buffer, exc, r) ==
    [conn |-> IF r.written THEN [c EXCEPT !.wire = Append(@, buffer)] ELSE c,
     raised |-> r.raised,
     sends |-> send_calls(exc)]

send_bytes_to(c, buffer, tx) ==
    write_on(c, buffer, socket_send(c, tx), send_bytes_on(socket_send(c, tx)))

\* send_message once the Websocket is known to be open: the frame is written, and
\* a BrokenPipeError is dropped when fail_silently is set
send_message_sent(sent, fail_silently) ==
    IF sent.raised.cls = "BrokenPipeError" /\ fail_silently
    THEN [sent EXCEPT !.raised = NoError]
    ELSE sent

send_message_open(c, message, opcode, fail_silently, tx) ==
    send_message_sent(send_bytes_to(c, prepare_frame(opcode, message), tx), fail_silently)

\* The outcome of an operation on a Websocket w = [closed, conn]
Outcome(w, result, raised, sends) ==
    [closed |-> w.closed, conn |-> w.conn, result |-> result, raised |-> raised,
     read |-> FALSE, sends |-> sends]

\* The call on a closed Websocket
closed_call(w, fail_silently) ==
    Outcome(w, NoneResult, IF fail_silently THEN NoError ELSE Raised("RuntimeError"), 0)

\* Websocket.send_message(message, opcode, fail_silently): opcode 0 stands for
\* the default, TEXT for a str and BINARY for bytes
determined_opcode(message, opcode) ==
    IF opcode # 0 THEN opcode ELSE IF message.type = "str" THEN TEXT ELSE BINARY

message_bytes(message, opcode) ==
    IF determined_opcode(message, opcode) = TEXT THEN encode(message.value)
    ELSE message.value

send_message_done(sent) ==
    Outcome([closed |-> FALSE, conn |-> sent.conn], NoneResult, sent.raised, sent.sends)

\* Websocket.send_message, were the closed flag not looked at.
Websocket_send_message_unguarded(w, message, opcode, fail_silently, tx) ==
    [send_message_done(send_message_open(w.conn, message_bytes(message, opcode),
                                         determined_opcode(message, opcode),
                                         fail_silently, tx))
        EXCEPT !.closed = w.closed]

Websocket_send_message(w, message, opcode, fail_silently, tx) ==
    IF w.closed THEN closed_call(w, fail_silently)
    ELSE send_message_done(send_message_open(w.conn, message_bytes(message, opcode),
                                             determined_opcode(message, opcode),
                                             fail_silently, tx))

\* Websocket.close() once the CLOSE frame was handed to send_message
close_sent(w, sent) ==
    IF sent.raised # NoError
    THEN Outcome([closed |-> FALSE, conn |-> sent.conn], NoneResult, sent.raised, sent.sends)
    ELSE Outcome([closed |-> TRUE, conn |-> [sent.conn EXCEPT !.open = FALSE]],
                 NoneResult, NoError, sent.sends)

\* Websocket.close()
Websocket_close(w, tx) ==
    IF w.closed THEN Outcome(w, NoneResult, NoError, 0)
    ELSE close_sent(w, send_message_open(w.conn, <<>>, CLOSE, TRUE, tx))

\* _handle_frame for a PING: the PONG is sent, then the payload returned
handle_ping(payload, sent) ==
    Outcome([closed |-> FALSE, conn |-> sent.conn],
            IF sent.raised = NoError THEN Bytes(payload) ELSE NoneResult,
            sent.raised, sent.sends)

\* _handle_frame, were a PING returned like a BINARY frame, no PONG sent.
handle_frame_no_pong(w, opcode, payload, tx) ==
    IF opcode = CONT THEN Outcome(w, NoneResult, NoError, 0)
    ELSE IF opcode = CLOSE THEN Websocket_close(w, tx)
    ELSE IF opcode = PONG THEN Outcome(w, NoneResult, NoError, 0)
    ELSE IF opcode = TEXT /\ Utf8Valid(payload)
    THEN Outcome(w, Str(decode(payload)), NoError, 0)
    ELSE Outcome(w, Bytes(payload), NoError, 0)

\* Websocket._handle_frame(opcode, payload)
handle_frame(w, opcode, payload, tx) ==
    IF opcode = CONT THEN Outcome(w, NoneResult, NoError, 0)
    ELSE IF opcode = CLOSE THEN Websocket_close(w, tx)
    ELSE IF opcode = PONG THEN Outcome(w, NoneResult, NoError, 0)
    ELSE IF opcode = PING
    THEN handle_ping(payload, send_message_open(w.conn, payload, PONG, FALSE, tx))
    ELSE IF opcode = TEXT /\ Utf8Valid(payload)
    THEN Outcome(w, Str(decode(payload)), NoError, 0)
    ELSE Outcome(w, Bytes(payload), NoError, 0)

\* The try block of receive(): rx.raised is what recv_into raises at once
receive_try(w, rx, frame, tx) ==
    IF rx.raised # NoError THEN Outcome(w, NoneResult, rx.raised, 0)
    ELSE IF frame.raised # NoError THEN Outcome(w, NoneResult, frame.raised, 0)
    ELSE handle_frame(w, frame.opcode, frame.payload, tx)

\* The sends of the try block and of the close() of the except clause
receive_closed(attempt, closing) ==
    [closing EXCEPT !.sends = attempt.sends + closing.sends]

\* The except clause of receive()
receive_except(attempt, tx) ==
    IF attempt.raised = NoError \/ ~IsOSError(attempt.raised) THEN attempt
    ELSE IF attempt.raised.errno \in {EAGAIN, ETIMEDOUT}
    THEN [attempt EXCEPT !.raised = NoError, !.result = NoneResult]
    ELSE IF attempt.raised.errno = ENOTCONN
    THEN receive_closed(attempt,
                        Websocket_close([closed |-> attempt.closed, conn |-> attempt.conn], tx))
    ELSE attempt

\* Websocket.receive, were the closed flag not looked at.
Websocket_receive_unguarded(w, fail_silently, rx, buffer_size, tx) ==
    [receive_except(receive_try([w EXCEPT !.closed = FALSE], rx,
                                read_frame(rx.stream, buffer_size), tx), tx)
        EXCEPT !.read = TRUE, !.closed = w.closed \/ @]

\* Websocket.receive(fail_silently)
Websocket_receive(w, fail_silently, rx, buffer_size, tx) ==
    IF w.closed THEN closed_call(w, fail_silently)
    ELSE [receive_except(receive_try(w, rx, read_frame(rx.stream, buffer_size), tx), tx)
            EXCEPT !.read = TRUE]

\* The buffers SSEResponse writes
SSE_CLOSE == "event: close\n"
SSE_EVENT == "data: d\n\n"

\* SSEResponse.send_event(data)
SSEResponse_send_event(w, tx) ==
    Outcome([closed |-> FALSE, conn |-> send_bytes_to(w.conn, SSE_EVENT, tx).conn],
            NoneResult,
            send_bytes_to(w.conn, SSE_EVENT, tx).raised,
            send_bytes_to(w.conn, SSE_EVENT, tx).sends)

\* SSEResponse.close() once "event: close" was handed to _send_bytes
sse_close_sent(sent) ==
    IF sent.raised # NoError
    THEN Outcome([closed |-> FALSE, conn |-> sent.conn], NoneResult, sent.raised, sent.sends)
    ELSE Outcome([closed |-> FALSE, conn |-> [sent.conn EXCEPT !.open = FALSE]],
                 NoneResult, NoError, sent.sends)

\* SSEResponse.close()
SSEResponse_close(w, tx) == sse_close_sent(send_bytes_to(w.conn, SSE_CLOSE, tx))

-----------------------------------------------------------------------------
(***************************************************************************)
(* SpecWebsocket: the application calls receive, send_message and close on *)
(* a Websocket, or send_event and close on an SSEResponse, whose headers   *)
(* were sent. arg is the object: its class, its closed flag (a Websocket   *)
(* has one), the calls made on it, the close() calls among them, and       *)
(* whether a read or a write has met an error of the socket. out is what   *)
(* the last call did.                                                      *)
(***************************************************************************)
MaxCalls == 3        \* calls made on the object

WsPayloads == {<<>>, <<104, 105>>, <<255>>, <<195, 169>>}

NoRx == [raised |-> NoError, stream |-> <<>>, opcode |-> -1, payload |-> <<>>]

\* The frame of a client: masked, with the key 1 2 3 4
ClientFrame(opcode, payload) ==
    [raised |-> NoError,
     stream |-> ClientMasked(prepare_frame(opcode, payload), <<1, 2, 3, 4>>),
     opcode |-> opcode, payload |-> payload]

\* What a receive() finds: nothing, a frame, or an error of the socket
Receivable ==
    {NoRx}
        \cup { ClientFrame(o, p) : o \in {TEXT, BINARY, PING, PONG}, p \in WsPayloads }
        \cup { ClientFrame(CLOSE, <<>>) }
        \cup { [NoRx EXCEPT !.raised = e] :
                 e \in {OSError(ETIMEDOUT), OSError(ENOTCONN), OSError(ECONNRESET)} }

TxFaults == {NoError, OSError(EAGAIN), OSError(ECONNRESET), BrokenPipeError, OSError(ENOTCONN)}

\* The write errors that make a difference to the receive(): it writes for a PING,
\* for a CLOSE and when the read raises ENOTCONN
TxFor(rx) ==
    IF rx.opcode \in {PING, CLOSE} \/ rx.raised = OSError(ENOTCONN) THEN TxFaults
    ELSE {NoError}

Messages == {Str(<<104, 105>>), Bytes(<<1, 2>>)}

InitWebsocket ==
    /\ arg \in [kind : {"Websocket", "SSEResponse"}, closed : {FALSE}, calls : {0},
                closes : {0}, faulted : {FALSE}]
    /\ ServerInit
    /\ root_path = None
    /\ out = Idle

\* The object is built by a handler and its headers are sent: the connection is
\* open, a Websocket's does not block.
Handshake ==
    /\ ~conn.open
    /\ arg.calls = 0
    /\ conn' = [NoConn EXCEPT !.open = TRUE, !.kept = arg.kind,
                              !.blocking = (arg.kind = "SSEResponse")]
    /\ out' = [op |-> "handshake"]
    /\ UNCHANGED <<stopped, host, port, sock, auths, root_path, routes, last, arg>>

Self == [closed |-> arg.closed, conn |-> conn]

\* The call op with these inputs had the outcome r.
Called(op, fail_silently, rx, tx, r) ==
    /\ arg' = [arg EXCEPT !.closed = r.closed,
                          !.calls = @ + 1,
                          !.closes = IF op = "close" THEN @ + 1 ELSE @,
                          !.faulted = @ \/ tx # NoError \/ rx.raised # NoError]
    /\ conn' = r.conn
    /\ out' = [op |-> op, fail_silently |-> fail_silently, was_closed |-> arg.closed,
               rx |-> [opcode |-> rx.opcode, payload |-> rx.payload, raised |-> rx.raised],
               tx |-> tx, result |-> r.result, raised |-> r.raised, read |-> r.read,
               sends |-> r.sends,
               wrote |-> SubSeq(r.conn.wire, Len(conn.wire) + 1, Len(r.conn.wire))]
    /\ UNCHANGED <<stopped, host, port, sock, auths, root_path, routes, last>>

Callable(kind) == out.op # "idle" /\ arg.kind = kind /\ arg.calls < MaxCalls

WsReceive ==
    /\ Callable("Websocket")
    /\ \E fail_silently \in IF arg.closed THEN BOOLEAN ELSE {FALSE},
          rx \in IF arg.closed THEN {NoRx} ELSE Receivable :
          \E tx \in TxFor(rx) :
             Called("receive", fail_silently, rx, tx,
                    Websocket_receive(Self, fail_silently, rx, DefaultBufferSize, tx))

WsSendMessage ==
    /\ Callable("Websocket")
    /\ \E message \in Messages, fail_silently \in BOOLEAN,
          tx \in IF arg.closed THEN {NoError} ELSE TxFaults :
          Called("send_message", fail_silently, NoRx, tx,
                 Websocket_send_message(Self, message, 0, fail_silently, tx))

WsClose ==
    /\ Callable("Websocket")
    /\ \E tx \in IF arg.closed THEN {NoError} ELSE TxFaults :
          Called("close", FALSE, NoRx, tx, Websocket_close(Self, tx))

SseSendEvent ==
    /\ Callable("SSEResponse")
    /\ \E tx \in TxFaults :
          Called("send_event", FALSE, NoRx, tx, SSEResponse_send_event(Self, tx))

SseClose ==
    /\ Callable("SSEResponse")
    /\ \E tx \in TxFaults :
          Called("close", FALSE, NoRx, tx, SSEResponse_close(Self, tx))

NextWebsocket == Handshake \/ WsReceive \/ WsSendMessage \/ WsClose \/ SseSendEvent \/ SseClose

SpecWebsocket == InitWebsocket /\ [][NextWebsocket]_vars

\* A step of a closed Websocket: it stays closed, and a receive or a send_message
\* reads nothing, writes nothing and returns None or raises RuntimeError.
ClosedWebsocketStep ==
    (arg.kind = "Websocket" /\ arg.closed) =>
        /\ arg'.closed
        /\ (arg'.calls = arg.calls + 1 /\ out'.op \in {"receive", "send_message"}) =>
              /\ ~out'.read
              /\ out'.sends = 0
              /\ conn' = conn
              /\ out'.result = NoneResult
              /\ out'.raised = IF out'.fail_silently THEN NoError
                               ELSE Raised("RuntimeError")

\* C13: a Websocket's state moves only from Open to Closed; once it is Closed,
\* send_message and receive raise an error, or return None when fail_silently is
\* set, and perform no socket read or write.
C13_ClosedStaysClosed == [][ClosedWebsocketStep]_vars

C13_Witness ==
    /\ arg.kind = "Websocket"
    /\ out.op = "receive"
    /\ out.was_closed
    /\ ~out.fail_silently
    /\ out.raised = Raised("RuntimeError")
    /\ ~out.read

\* The buffer close() writes, and how often it is on the wire.
CloseBuffer == IF arg.kind = "Websocket" THEN <<136, 0>> ELSE "event: close\n"

CloseWrites == Cardinality({ i \in DOMAIN conn.wire : conn.wire[i] = CloseBuffer })

\* C14: after one or more calls of close() on a Websocket or an SSEResponse whose
\* socket has met no error, the close frame or the "event: close" sentinel is on
\* the wire exactly once and the socket is closed; the second and every later
\* call writes nothing and raises nothing.
C14_CloseWritesOnce ==
    (out.op = "close" /\ ~arg.faulted) =>
        /\ CloseWrites = 1
        /\ ~conn.open
        /\ out.raised = NoError
        /\ arg.closes >= 2 => out.wrote = <<>>

\* The same, of a Websocket alone.
WebsocketCloseWritesOnce == arg.kind = "Websocket" => C14_CloseWritesOnce

\* C15: close() called on an open Websocket, by the application or by receive()
\* on ENOTCONN, leaves it closed with its socket closed, whatever the write of the
\* CLOSE frame raises, and raises nothing.
C15_CloseAlwaysCloses ==
    (/\ arg.kind = "Websocket"
     /\ \/ out.op = "close"
        \/ out.op = "receive" /\ out.rx.raised = OSError(ENOTCONN)
     /\ ~out.was_closed)
        => /\ arg.closed
           /\ ~conn.open
           /\ out.raised = NoError

\* What receive() is to return for a TEXT frame with a payload of the model.
DescribedText(payload) ==
    CASE payload = <<>> -> Str(<<>>)
      [] payload = <<104, 105>> -> Str(<<104, 105>>)
      [] payload = <<195, 169>> -> Str(<<233>>)
      [] payload = <<255>> -> Bytes(<<255>>)

\* A receive() on an open Websocket read a whole frame, and the socket's writes
\* succeed.
ReceivedFrame ==
    /\ arg.kind = "Websocket"
    /\ out.op = "receive"
    /\ ~out.was_closed
    /\ out.rx.raised = NoError
    /\ out.rx.opcode # -1
    /\ out.tx = NoError

-----------------------------------------------------------------------------
(***************************************************************************)
(* SpecHandshake: a server with the route "/ws", whose handler returns     *)
(* Websocket(request), is started and polled once; the request has the     *)
(* Upgrade, Connection and Sec-WebSocket-Key headers of arg.               *)
(***************************************************************************)
\* Header values of the model
WEBSOCKET == <<"w", "e", "b", "s", "o", "c", "k", "e", "t">>
UPGRADE == <<"u", "p", "g", "r", "a", "d", "e">>
V_WebSocket == <<"W", "e", "b", "S", "o", "c", "k", "e", "t">>
V_h2c == <<"h", "2", "c">>
V_h2c_websocket == <<"h", "2", "c", ";", "w", "e", "b", "s", "o", "c", "k", "e", "t">>
V_Upgrade == <<"U", "p", "g", "r", "a", "d", "e">>
V_keepalive_Upgrade == <<"k", "e", "e", "p", "-", "a", "l", "i", "v", "e", ",", " ", "U", "p", "g", "r", "a", "d", "e">>
V_close == <<"c", "l", "o", "s", "e">>

\* Websocket._check_request_initiates_handshake(request)
check_request_initiates_handshake(upgrade, connection, key) ==
    /\ Contains(Lower(IF get_directive(upgrade).present THEN get_directive(upgrade).value
                      ELSE <<>>), WEBSOCKET)
    /\ Contains(Lower(IF get_directive(connection).present
                      THEN get_directive(connection).value
                      ELSE <<>>), UPGRADE)
    /\ key.present

UpgradeValues ==
    {NoHeader, Header(WEBSOCKET), Header(V_WebSocket),
     Header(V_h2c), Header(V_h2c_websocket)}

ConnectionValues ==
    {NoHeader, Header(UPGRADE), Header(V_Upgrade),
     Header(V_keepalive_Upgrade), Header(V_close)}

KeyValues == {NoHeader, Header(<<"k">>)}

InitHandshake ==
    /\ arg \in [upgrade : UpgradeValues, connection : ConnectionValues, key : KeyValues]
    /\ ServerInit
    /\ root_path = None
    /\ out = Idle

RegisterHandshake ==
    /\ stopped
    /\ last.op = "idle"
    /\ routes = <<>>
    /\ route(<<"/", "w", "s">>, {GET}, "h1", FALSE)
    /\ UNCHANGED <<serverVars, arg>>

StartHandshake ==
    /\ stopped
    /\ last.op = "idle"
    /\ routes # <<>>
    /\ start("0.0.0.0", "5000", TRUE, TRUE)
    /\ UNCHANGED <<arg, out>>

PollHandshake ==
    /\ last.op = "start"
    /\ poll(NoError,
            Received([method |-> GET, path |-> <<"/", "w", "s">>, authorization |-> NoHeader,
                      handshake |-> check_request_initiates_handshake(
                                        arg.upgrade, arg.connection, arg.key)]),
            [act |-> "Websocket", error |-> NoError], NoFault, "regular")
    /\ UNCHANGED <<arg, out>>

NextHandshake == RegisterHandshake \/ StartHandshake \/ PollHandshake

SpecHandshake == InitHandshake /\ [][NextHandshake]_vars

\* The request of arg does not initiate a handshake: its Upgrade directive has no
\* "websocket", its Connection directive no "upgrade", whatever the case of the
\* letters, or it has no Sec-WebSocket-Key.
NoHandshakeRequest ==
    \/ arg.upgrade \notin {Header(WEBSOCKET), Header(V_WebSocket)}
    \/ arg.connection \notin {Header(UPGRADE), Header(V_Upgrade), Header(V_keepalive_Upgrade)}
    \/ ~arg.key.present

\* The handler was called for such a request.
BadHandshakePolled == Polled /\ last.handler_invoked /\ NoHandshakeRequest

\* C17: a Websocket built for a request that does not initiate a handshake fails:
\* the connection stays in blocking mode, no 101 response is written, and the
\* server answers the request with a 400 response.
C17_BadHandshakeAnswered400 ==
    BadHandshakePolled =>
        /\ conn.blocking
        /\ last.response.kind # "Websocket"
        /\ last.result = REQUEST_HANDLED_RESPONSE_SENT
        /\ last.response.status = BAD_REQUEST_400

\* What the code does for it: the ValueError of Websocket.__init__ reaches the
\* caller of poll(), nothing is written and the connection is closed.
BadHandshakeRaised ==
    BadHandshakePolled =>
        /\ conn.blocking
        /\ conn.wire = <<>>
        /\ ~conn.open
        /\ last.raised = Raised("ValueError")
        /\ last.response = NoResponse

\* A request that initiates the handshake is answered 101 on a connection that no
\* longer blocks.
HandshakeAccepted ==
    (Polled /\ last.handler_invoked /\ ~NoHandshakeRequest) =>
        /\ last.response.status = SWITCHING_PROTOCOLS_101
        /\ ~conn.blocking
        /\ conn.wire = <<"H">>

-----------------------------------------------------------------------------
(***************************************************************************)
(* response.py: ChunkedResponse. The body written after the header block   *)
(* is a sequence of bytes; the characters of the framing are their ASCII   *)
(* codes.                                                                  *)
(***************************************************************************)
\* b"%x" % n: the lowercase hexadecimal digits of n
HexDigit(d) == IF d < 10 THEN 48 + d ELSE 87 + d

RECURSIVE Hex(_)
Hex(n) == IF n < 16 THEN <<HexDigit(n)>> ELSE Append(Hex(n \div 16), HexDigit(n % 16))

CRLFBytes == <<13, 10>>

\* chunk.encode("utf-8") if isinstance(chunk, str) else chunk
encoded_chunk(chunk) == IF chunk.type = "str" THEN encode(chunk.value) ELSE chunk.value

\* ChunkedResponse._send_chunk(chunk): the three buffers it writes
send_chunk(chunk) ==
    Hex(Len(encoded_chunk(chunk))) \o CRLFBytes \o encoded_chunk(chunk) \o CRLFBytes

\* The loop of _send, were the empty chunks sent like the others.
RECURSIVE send_chunks_all(_)
send_chunks_all(chunks) ==
    IF chunks = <<>> THEN <<>>
    ELSE send_chunk(Head(chunks)) \o send_chunks_all(Tail(chunks))

\* The loop of ChunkedResponse._send over the chunks the body yields
RECURSIVE send_chunks(_)
send_chunks(chunks) ==
    IF chunks = <<>> THEN <<>>
    ELSE (IF 0 < Len(Head(chunks).value) THEN send_chunk(Head(chunks)) ELSE <<>>)
            \o send_chunks(Tail(chunks))

\* _send, were the empty chunks of the body sent like the others.
ChunkedResponse_send_all(chunks) ==
    [op |-> "send", header |-> "H",
     body |-> send_chunks_all(chunks) \o send_chunk(Str(<<>>)),
     closed |-> TRUE]

\* ChunkedResponse._send(): the headers, the chunks, the empty chunk, and the
\* connection is closed
ChunkedResponse_send(chunks) ==
    [op |-> "send", header |-> "H",
     body |-> send_chunks(chunks) \o send_chunk(Str(<<>>)),
     closed |-> TRUE]

-----------------------------------------------------------------------------
(***************************************************************************)
(* SpecChunked: a ChunkedResponse whose body yields the chunks arg.chunks  *)
(* is built and sent on a connection whose writes succeed.                 *)
(***************************************************************************)
MaxChunks == 3       \* the body yields at most this many chunks

Chunks ==
    {Str(<<>>), Bytes(<<>>), Str(<<104, 105>>), Str(<<233>>), Bytes(<<13, 10>>),
     Bytes([i \in 1..26 |-> 96 + i])}

InitChunked ==
    /\ arg \in [chunks : UNION { [1..n -> Chunks] : n \in 0..MaxChunks }]
    /\ ServerInit
    /\ root_path = None
    /\ out = Idle

\* ChunkedResponse(request, body): the header Transfer-Encoding is set
BuildChunked ==
    /\ out.op = "idle"
    /\ out' = [op |-> "init", transfer_encoding |-> "chunked"]
    /\ UNCHANGED <<serverVars, routes, arg>>

SendChunked ==
    /\ out.op = "init"
    /\ out' = ChunkedResponse_send(arg.chunks)
    /\ UNCHANGED <<serverVars, routes, arg>>

NextChunked == BuildChunked \/ SendChunked

SpecChunked == InitChunked /\ [][NextChunked]_vars

\* Decoding of the chunked transfer encoding: the hexadecimal number at position i
IsHexByte(b) == b \in 48..57 \/ b \in 97..102 \/ b \in 65..70

HexValue(b) == IF b \in 48..57 THEN b - 48 ELSE IF b \in 97..102 THEN b - 87 ELSE b - 55

RECURSIVE HexEnd(_, _)
HexEnd(bytes, i) ==
    IF i <= Len(bytes) /\ IsHexByte(bytes[i]) THEN HexEnd(bytes, i + 1) ELSE i

RECURSIVE HexNumber(_)
HexNumber(digits) ==
    IF digits = <<>> THEN 0
    ELSE 16 * HexNumber(SubSeq(digits, 1, Len(digits) - 1)) + HexValue(digits[Len(digits)])

\* The frames of the body from position i on, the last-chunk included; ok says
\* that the body is well-formed and ends with the last-chunk.
RECURSIVE Dechunk(_, _, _)
Dechunk(bytes, i, frames) ==
    LET e == HexEnd(bytes, i)
        n == HexNumber(SubSeq(bytes, i, e - 1))
    IN  IF e = i \/ ~IsPrefixAt(bytes, e, CRLFBytes) \/ ~IsPrefixAt(bytes, e + 2 + n, CRLFBytes)
        THEN [ok |-> FALSE, frames |-> frames]
        ELSE IF n = 0
        THEN [ok |-> e + 4 = Len(bytes) + 1, frames |-> Append(frames, <<>>)]
        ELSE Dechunk(bytes, e + 4 + n, Append(frames, SubSeq(bytes, e + 2, e + 1 + n)))

\* The UTF-8 bytes of the chunks of the model
DescribedBytes(chunk) ==
    IF chunk = Str(<<233>>) THEN <<195, 169>> ELSE chunk.value

RECURSIVE DescribedData(_)
DescribedData(chunks) ==
    IF chunks = <<>> THEN <<>>
    ELSE DescribedBytes(Head(chunks)) \o DescribedData(Tail(chunks))

\* C19: the bytes a ChunkedResponse writes after the header block decode, as
\* chunked transfer encoding, to the concatenation of the chunks its body yields,
\* empty ones included: the frames are <hex length>\r\n<data>\r\n, the
\* zero-length frame is written once, as the last one, and the connection is
\* then closed.
C19_ChunkedDecodes ==
    out.op = "send" =>
        LET d == Dechunk(out.body, 1, <<>>)
        IN  /\ d.ok
            /\ Concat(d.frames) = DescribedData(arg.chunks)
            /\ \A i \in DOMAIN d.frames : (d.frames[i] = <<>>) <=> (i = Len(d.frames))
            /\ out.header = "H"
            /\ out.closed

C19_Witness ==
    /\ out.op = "send"
    /\ arg.chunks = <<Str(<<104, 105>>), Bytes(<<>>), Str(<<233>>)>>
    /\ out.body = <<50, 13, 10, 104, 105, 13, 10, 50, 13, 10, 195, 169, 13, 10,
                    48, 13, 10, 13, 10>>
    /\ out.closed

-----------------------------------------------------------------------------
(***************************************************************************)
(* response.py: the Content-Length and Transfer-Encoding headers of        *)
(* _send_headers and the _send of every response class. Header values are  *)
(* the ASCII codes of their text.                                          *)
(***************************************************************************)
\* A field of the Headers storage: not set, set to None, or set to a text
Unset == [set |-> FALSE, none |-> FALSE, value |-> <<>>]
NoneField == [set |-> TRUE, none |-> TRUE, value |-> <<>>]
Field(value) == [set |-> TRUE, none |-> FALSE, value |-> value]

\* Headers.setdefault(name, default)
setdefault(field, default) == IF field.set THEN field ELSE default

\* f"{value}" of an int
RECURSIVE Decimal(_)
Decimal(n) == IF n < 10 THEN <<48 + n>> ELSE Append(Decimal(n \div 10), 48 + (n % 10))

Chunked == <<99, 104, 117, 110, 107, 101, 100>>

\* Optional[int] content_length of _send_headers
ContentLength(n) == Field(Decimal(n))

\* _send_headers: for header, value in headers.items(): if value is not None
WrittenHeader(field) == IF field.set /\ ~field.none THEN Header(field.value) ELSE NoHeader

\* Response._send_headers(content_length): the header lines it writes
send_headers(headers, content_length) ==
    [content_length |-> WrittenHeader(setdefault(headers.content_length, content_length)),
     transfer_encoding |-> WrittenHeader(headers.transfer_encoding)]

\* json.dumps(data) of the data of the model: None, {} and "é"
json_dumps(data) ==
    IF data = "None" THEN <<110, 117, 108, 108>>
    ELSE IF data = "dict" THEN <<123, 125>>
    ELSE <<34, 92, 117, 48, 48, 101, 57, 34>>

\* What _send wrote: the header lines, the bytes after the header block, and
\* whether _close_connection() was called
Sent(headers, body, closed) ==
    [op |-> "send", headers |-> headers, body |-> body, closed |-> closed]

Response_send(r) ==
    Sent(send_headers(r.headers, ContentLength(Len(encoded_chunk(r.body)))),
         encoded_chunk(r.body), TRUE)

JSONResponse_send(r) ==
    Sent(send_headers(r.headers, ContentLength(Len(json_dumps(r.data)))),
         json_dumps(r.data), TRUE)

FileResponse_send(r) ==
    Sent(send_headers(r.headers, ContentLength(Len(r.file))),
         IF r.head_only THEN <<>> ELSE r.file, TRUE)

Chunked_send(r) ==
    Sent(send_headers(r.headers, NoneField), ChunkedResponse_send(r.chunks).body, TRUE)

Redirect_send(r) == Sent(send_headers(r.headers, NoneField), <<>>, TRUE)

\* SSEResponse._send and Websocket._send
Upgrade_send(r) == Sent(send_headers(r.headers, NoneField), <<>>, FALSE)

response_send(r) ==
    CASE r.kind = "Response" -> Response_send(r)
      [] r.kind = "JSONResponse" -> JSONResponse_send(r)
      [] r.kind = "FileResponse" -> FileResponse_send(r)
      [] r.kind = "ChunkedResponse" -> Chunked_send(r)
      [] r.kind = "Redirect" -> Redirect_send(r)
      [] OTHER -> Upgrade_send(r)

-----------------------------------------------------------------------------
(***************************************************************************)
(* SpecLength: a handler builds a response of one of the classes, with or  *)
(* without a Content-Length header of its own, and the server sends it on  *)
(* a connection whose writes succeed.                                      *)
(***************************************************************************)
MaxBodyChunks == 2     \* the body of a ChunkedResponse yields at most this many chunks

Bodies == {Str(<<>>), Str(<<104, 105>>), Str(<<233>>), Bytes(<<1, 2, 3>>)}

Files == {<<>>, <<104, 105>>}

JsonData == {"None", "dict", "str"}

\* The Content-Length header the handler gives the response: none, "0" or "7"
OwnLengths == {Unset, Field(<<48>>), Field(<<55>>)}

NoResponseArgs ==
    [kind |-> None, own |-> Unset, body |-> Str(<<>>), data |-> "None", file |-> <<>>,
     head_only |-> FALSE, chunks |-> <<>>]

ResponseArgs ==
    UNION {
        {[NoResponseArgs EXCEPT !.kind = "Response", !.body = b] : b \in Bodies},
        {[NoResponseArgs EXCEPT !.kind = "JSONResponse", !.data = d] : d \in JsonData},
        {[NoResponseArgs EXCEPT !.kind = "FileResponse", !.file = f, !.head_only = h] :
            f \in Files, h \in BOOLEAN},
        {[NoResponseArgs EXCEPT !.kind = "ChunkedResponse", !.chunks = cs] :
            cs \in UNION { [1..n -> Bodies] : n \in 0..MaxBodyChunks }},
        {[NoResponseArgs EXCEPT !.kind = k] : k \in {"Redirect", "SSEResponse", "Websocket"}}
    }

InitLength ==
    /\ arg \in {[a EXCEPT !.own = own] : a \in ResponseArgs, own \in OwnLengths}
    /\ ServerInit
    /\ root_path = None
    /\ out = Idle

\* Response.__init__ and the subclasses': the headers of the handler are copied,
\* ChunkedResponse sets Transfer-Encoding unless the handler did
BuildResponse ==
    /\ out.op = "idle"
    /\ out' = [op |-> "init", kind |-> arg.kind, body |-> arg.body, data |-> arg.data,
               file |-> arg.file, head_only |-> arg.head_only, chunks |-> arg.chunks,
               headers |-> [content_length |-> arg.own,
                            transfer_encoding |->
                                IF arg.kind = "ChunkedResponse"
                                THEN setdefault(Unset, Field(Chunked)) ELSE Unset]]
    /\ UNCHANGED <<serverVars, routes, arg>>

SendResponse ==
    /\ out.op = "init"
    /\ out' = response_send(out)
    /\ UNCHANGED <<serverVars, routes, arg>>

NextLength == BuildResponse \/ SendResponse

SpecLength == InitLength /\ [][NextLength]_vars

\* C20: a response that is not in chunked mode is sent with a Content-Length
\* header whose value is the number of body bytes that follow the header block;
\* only a chunked response is sent without Content-Length, and it carries
\* Transfer-Encoding: chunked. Stated for the responses whose handler sets no
\* Content-Length of its own, that do not answer a HEAD request and whose
\* connection is closed after them (SSEResponse and Websocket keep it).
C20_ContentLength ==
    (out.op = "send" /\ arg.own = Unset /\ ~arg.head_only /\ out.closed) =>
        IF arg.kind = "ChunkedResponse"
        THEN /\ out.headers.content_length = NoHeader
             /\ out.headers.transfer_encoding = Header(Chunked)
        ELSE out.headers.content_length = Header(Decimal(Len(out.body)))

\* The responses with a body of their own, when the handler sets no Content-Length
\* and the request is not a HEAD request, do carry the length of their body.
BodyResponsesCarryLength ==
    (/\ out.op = "send"
     /\ arg.kind \in {"Response", "JSONResponse", "FileResponse"}
     /\ arg.own = Unset
     /\ ~arg.head_only)
        => out.headers.content_length = Header(Decimal(Len(out.body)))

\* A Redirect is sent without Content-Length and without Transfer-Encoding.
RedirectWithoutLength ==
    (out.op = "send" /\ arg.kind = "Redirect" /\ arg.own = Unset)
        => out.headers = [content_length |-> NoHeader, transfer_encoding |-> NoHeader]

-----------------------------------------------------------------------------
(***************************************************************************)
(* server.py: _receive_header_bytes, _receive_body_bytes and               *)
(* _receive_request on a connection that delivers the chunks of a stream,  *)
(* one per recv_into, and then raises ETIMEDOUT.                           *)
(***************************************************************************)
\* Server._receive_header_bytes: the bytes read and the chunks left
RECURSIVE receive_header_stream(_, _)
receive_header_stream(stream, received_bytes) ==
    IF Contains(received_bytes, EmptyLine) \/ stream = <<>>
    THEN [bytes |-> received_bytes, stream |-> stream]
    ELSE receive_header_stream(Tail(stream), received_bytes \o Head(stream))

\* The loop of Server._receive_body_bytes
RECURSIVE receive_body_loop(_, _, _)
receive_body_loop(stream, received_body_bytes, content_length) ==
    IF ~(Len(received_body_bytes) < content_length) \/ stream = <<>>
    THEN received_body_bytes
    ELSE receive_body_loop(Tail(stream), received_body_bytes \o Head(stream), content_length)

\* Server._receive_body_bytes
receive_body_bytes(stream, received_body_bytes, content_length) ==
    SliceTo(receive_body_loop(stream, received_body_bytes, content_length), content_length)

\* Request._raw_body_bytes
raw_body_bytes(raw_request) == SliceFrom(raw_request, find(raw_request, EmptyLine) + 4)

\* Request.body = body
set_body(raw_request, body) == raw_header_bytes(raw_request) \o EmptyLine \o body

DigitValue(c) ==
    CASE c = "0" -> 0 [] c = "1" -> 1 [] c = "2" -> 2 [] c = "3" -> 3 [] c = "4" -> 4
      [] c = "5" -> 5 [] c = "6" -> 6 [] c = "7" -> 7 [] c = "8" -> 8 [] OTHER -> 9

Digits == {"0", "1", "2", "3", "4", "5", "6", "7", "8", "9"}

RECURSIVE DigitsValue(_)
DigitsValue(s) ==
    IF s = <<>> THEN 0
    ELSE 10 * DigitsValue(SubSeq(s, 1, Len(s) - 1)) + DigitValue(s[Len(s)])

\* int(request.headers.get_directive("Content-Length", 0)), for decimal digits
\* and for texts that are no number
content_length_of(directive) ==
    IF ~directive.present THEN [raised |-> NoError, value |-> 0]
    ELSE IF directive.value # <<>> /\ \A i \in DOMAIN directive.value : directive.value[i] \in Digits
    THEN [raised |-> NoError, value |-> DigitsValue(directive.value)]
    ELSE [raised |-> Raised("ValueError"), value |-> 0]

ContentLengthName ==
    <<"c", "o", "n", "t", "e", "n", "t", "-", "l", "e", "n", "g", "t", "h">>

NoReceived ==
    [raised |-> NoError, none |-> FALSE, header_bytes |-> <<>>, parsed |-> NoParse,
     content_length |-> 0, body |-> <<>>, raw_request |-> <<>>]

\* _receive_request from the Content-Length on
receive_request_body(header, parsed, content_length) ==
    IF content_length.raised # NoError
    THEN [NoReceived EXCEPT !.raised = content_length.raised, !.header_bytes = header.bytes]
    ELSE [NoReceived EXCEPT
            !.header_bytes = header.bytes, !.parsed = parsed,
            !.content_length = content_length.value,
            !.body = raw_body_bytes(set_body(header.bytes,
                        receive_body_bytes(header.stream, raw_body_bytes(header.bytes),
                                           content_length.value))),
            !.raw_request = set_body(header.bytes,
                        receive_body_bytes(header.stream, raw_body_bytes(header.bytes),
                                           content_length.value))]

\* _receive_request from the header bytes on
receive_request_parsed(header, parsed) ==
    IF header.bytes = <<>> THEN [NoReceived EXCEPT !.none = TRUE]
    ELSE IF parsed.raised # NoError
    THEN [NoReceived EXCEPT !.raised = parsed.raised, !.header_bytes = header.bytes]
    ELSE receive_request_body(header, parsed,
            content_length_of(get_directive(HeadersGet(parsed.fields, ContentLengthName))))

receive_request_header(header) == receive_request_parsed(header, Request(header.bytes))

\* Server._receive_request(sock, client_address)
receive_request_stream(stream) ==
    receive_request_header(receive_header_stream(stream, <<>>))

-----------------------------------------------------------------------------
(***************************************************************************)
(* SpecBody: a server with the route "/a" is started and polled once; the  *)
(* connection delivers a request with or without Content-Length and the    *)
(* chunks arg.chunks of body bytes, the first of them in the same read as   *)
(* the header when arg.merged, and then times out.                          *)
(***************************************************************************)
MaxBodyReads == 3    \* the body bytes arrive in at most this many chunks

BodyPieces == { <<"b">>, <<"o", "d">>, EmptyLine }

DeclaredLengths == { <<>>, <<"0">>, <<"2">>, <<"3">>, <<"x">> }

\* The header block of the request: the start line, the Content-Length header
\* when one is declared, and the empty line
BodyRequestHead(declared) ==
    <<"G", "E", "T", " ", "/", "a", " ", "1">> \o CRLF
        \o (IF declared = <<>> THEN <<"a", ":", " ", "b">>
            ELSE <<"C", "o", "n", "t", "e", "n", "t", "-", "L", "e", "n", "g", "t", "h",
                   ":", " ">> \o declared)
        \o EmptyLine

BodyStream(a) ==
    IF a.merged /\ a.chunks # <<>>
    THEN <<BodyRequestHead(a.declared) \o Head(a.chunks)>> \o Tail(a.chunks)
    ELSE <<BodyRequestHead(a.declared)>> \o a.chunks

\* What poll() is given by _receive_request
ReceivedStream(received) ==
    [raised |-> NoError,
     header_bytes |-> received.header_bytes,
     parseable |-> received.raised = NoError /\ ~received.none,
     request |-> IF received.raised = NoError /\ ~received.none
                 THEN RequestOf(received.parsed) ELSE NoRequest]

InitBody ==
    /\ arg \in [declared : DeclaredLengths, merged : BOOLEAN,
                chunks : UNION { [1..n -> BodyPieces] : n \in 0..MaxBodyReads }]
    /\ ServerInit
    /\ root_path = None
    /\ out = Idle

RegisterBody ==
    /\ stopped
    /\ last.op = "idle"
    /\ routes = <<>>
    /\ route(<<"/", "a">>, {GET}, "h1", FALSE)
    /\ UNCHANGED <<serverVars, arg>>

StartBody ==
    /\ stopped
    /\ last.op = "idle"
    /\ routes # <<>>
    /\ start("0.0.0.0", "5000", TRUE, TRUE)
    /\ UNCHANGED <<arg, out>>

PollBody ==
    /\ last.op = "start"
    /\ \E hb \in {[act |-> "Response", error |-> NoError], NoBehaviour} :
          poll(NoError, ReceivedStream(receive_request_stream(BodyStream(arg))), hb,
               NoFault, "regular")
    /\ out' = [op |-> "receive",
               raised |-> receive_request_stream(BodyStream(arg)).raised,
               body |-> receive_request_stream(BodyStream(arg)).body]
    /\ UNCHANGED arg

NextBody == RegisterBody \/ StartBody \/ PollBody

SpecBody == InitBody /\ [][NextBody]_vars

\* The Content-Length the request declares, 0 when it declares none
DeclaredLength ==
    IF arg.declared = <<"2">> THEN 2 ELSE IF arg.declared = <<"3">> THEN 3 ELSE 0

\* C21: the request handed to a route handler has a body of exactly the
\* declared Content-Length bytes, the first ones sent after the empty line (no
\* byte when no Content-Length is declared); the handler is not invoked before
\* that many body bytes have been received.
C21_BodyOfDeclaredLength ==
    (Polled /\ last.handler_invoked) =>
        /\ Len(out.body) = DeclaredLength
        /\ out.body = SubSeq(Concat(arg.chunks), 1, DeclaredLength)

\* When the connection delivers the declared number of body bytes, in however
\* many reads, the handler is handed exactly these.
BodyOfDeliveredLength ==
    (Polled /\ last.handler_invoked /\ Len(Concat(arg.chunks)) >= DeclaredLength) =>
        out.body = SubSeq(Concat(arg.chunks), 1, DeclaredLength)

\* When the connection times out before that, the handler is handed what came.
BodyOfTimedOutRead ==
    (Polled /\ arg.declared \in {<<"2">>, <<"3">>}
        /\ Len(Concat(arg.chunks)) < DeclaredLength) =>
        /\ last.handler_invoked
        /\ out.body = Concat(arg.chunks)
        /\ out.raised = NoError

-----------------------------------------------------------------------------
(***************************************************************************)
(* headers.py, interfaces.py: the storage of Headers, a dict from the      *)
(* lowercase name to the list of its values, kept here as the sequence of  *)
(* its entries in the order of insertion. Names and values are sequences   *)
(* of characters.                                                          *)
(***************************************************************************)
\* The position of a key of the dict, 0 when the dict has no such key
KeyIndex(storage, key) ==
    IF \A i \in DOMAIN storage : storage[i].name # key THEN 0
    ELSE CHOOSE i \in DOMAIN storage : storage[i].name = key

\* self._storage[key] = values
StorageSet(storage, key, values) ==
    IF KeyIndex(storage, key) = 0 THEN Append(storage, [name |-> key, values |-> values])
    ELSE [storage EXCEPT ![KeyIndex(storage, key)].values = values]

\* _IFieldStorage._add_field_value
add_field_value(storage, field_name, value) ==
    IF KeyIndex(storage, field_name) = 0
    THEN Append(storage, [name |-> field_name, values |-> <<value>>])
    ELSE [storage EXCEPT ![KeyIndex(storage, field_name)].values = Append(@, value)]

\* add_field_value, were the new value to replace the stored ones.
Headers_add_replacing(storage, field_name, value) ==
    StorageSet(storage, Lower(field_name), <<value>>)

Headers_add(storage, field_name, value) ==
    add_field_value(storage, Lower(field_name), value)

Headers_set(storage, name, value) == StorageSet(storage, Lower(name), <<value>>)

\* Headers.__setitem__
Headers_setitem(storage, name, value) == StorageSet(storage, Lower(name), <<value>>)

\* Headers.setdefault: dict.setdefault(name.lower(), [default])
Headers_setdefault(storage, name, default) ==
    IF KeyIndex(storage, Lower(name)) = 0
    THEN Append(storage, [name |-> Lower(name), values |-> <<default>>])
    ELSE storage

\* Headers.get: self._storage.get(name.lower(), [default])[0]
Headers_get(storage, field_name, default) ==
    IF KeyIndex(storage, Lower(field_name)) = 0 THEN default
    ELSE storage[KeyIndex(storage, Lower(field_name))].values[1]

Headers_get_list(storage, field_name) ==
    IF KeyIndex(storage, Lower(field_name)) = 0 THEN <<>>
    ELSE storage[KeyIndex(storage, Lower(field_name))].values

Headers_contains(storage, key) == KeyIndex(storage, Lower(key)) # 0

\* Headers.__getitem__: self._storage[name.lower()][0]
Headers_getitem(storage, name) ==
    IF KeyIndex(storage, Lower(name)) = 0 THEN [raised |-> Raised("KeyError"), value |-> <<>>]
    ELSE [raised |-> NoError, value |-> storage[KeyIndex(storage, Lower(name))].values[1]]

\* Headers.__delitem__: del self._storage[name.lower()]
Headers_delitem(storage, name) ==
    IF KeyIndex(storage, Lower(name)) = 0 THEN [raised |-> Raised("KeyError"), storage |-> storage]
    ELSE [raised |-> NoError,
          storage |-> SelectSeq(storage, LAMBDA e : e.name # Lower(name))]

\* _IFieldStorage.items(): the (name, value) pairs, key by key
RECURSIVE items(_)
items(storage) ==
    IF storage = <<>> THEN <<>>
    ELSE [i \in DOMAIN Head(storage).values |->
            [name |-> Head(storage).name, value |-> Head(storage).values[i]]]
         \o items(Tail(storage))

\* Headers(headers: dict) and Headers.update's argument: the pairs of a dict
RECURSIVE add_all(_, _)
add_all(storage, pairs) ==
    IF pairs = <<>> THEN storage
    ELSE add_all(Headers_add(storage, Head(pairs).name, Head(pairs).value), Tail(pairs))

\* Headers.update(headers)
RECURSIVE Headers_update(_, _)
Headers_update(storage, pairs) ==
    IF pairs = <<>> THEN storage
    ELSE Headers_update(Headers_set(storage, Head(pairs).name, Head(pairs).value), Tail(pairs))

\* The value None of a header, and f"{value}"
NoneValue == <<"<None>">>

FormatValue(value) == IF value = NoneValue THEN <<"N", "o", "n", "e">> ELSE value

\* "\r\n".join(f"{key}: {value}" ...)
RECURSIVE JoinLines(_)
JoinLines(pairs) ==
    IF pairs = <<>> THEN <<>>
    ELSE Head(pairs).name \o <<":", " ">> \o FormatValue(Head(pairs).value)
         \o (IF Len(pairs) = 1 THEN <<>> ELSE CRLF \o JoinLines(Tail(pairs)))

\* Headers.copy(): Headers(str) of the joined lines
Headers_copy(storage) ==
    [raised |-> Headers(JoinLines(items(storage))).raised,
     storage |-> add_all(<<>>, Headers(JoinLines(items(storage))).fields)]

-----------------------------------------------------------------------------
(***************************************************************************)
(* response.py: Response._send_headers on the Headers storage, and         *)
(* server.py: Server._set_default_server_headers. The texts the model does *)
(* not look into (a content type, "close") are one element of a value.     *)
(* The responses of the model have no cookies.                             *)
(***************************************************************************)
ContentTypeName == <<"c", "o", "n", "t", "e", "n", "t", "-", "t", "y", "p", "e">>

ConnectionName == <<"c", "o", "n", "n", "e", "c", "t", "i", "o", "n">>

TextPlain == <<"text/plain">>

\* a or b, of two texts or None
Or(a, b) == IF a = NoneValue \/ a = <<>> THEN b ELSE a

\* Server._set_default_server_headers(response), from the items of Server.headers
RECURSIVE set_default_server_headers(_, _)
set_default_server_headers(response_headers, server_items) ==
    IF server_items = <<>> THEN response_headers
    ELSE set_default_server_headers(
            Headers_setdefault(response_headers, Head(server_items).name,
                               Head(server_items).value),
            Tail(server_items))

\* The three setdefault calls of _send_headers
with_defaults(headers, content_type, content_length) ==
    Headers_setdefault(
        Headers_setdefault(
            Headers_setdefault(headers, ContentTypeName, content_type),
            ContentLengthName, content_length),
        ConnectionName, <<"close">>)

\* The header lines written: those whose value is not None
written_lines(headers) == SelectSeq(items(headers), LAMBDA p : p.value # NoneValue)

send_headers_copied(copied, content_type, content_length) ==
    IF copied.raised # NoError THEN [raised |-> copied.raised, lines |-> <<>>]
    ELSE [raised |-> NoError,
          lines |-> written_lines(with_defaults(copied.storage, content_type, content_length))]

\* Response._send_headers(content_length, content_type) of a response with the
\* headers and the content type of its own
Response_send_headers(headers, self_content_type, content_length, content_type) ==
    send_headers_copied(Headers_copy(headers),
                        Or(content_type, Or(self_content_type, TextPlain)), content_length)

-----------------------------------------------------------------------------
(***************************************************************************)
(* SpecDefaults: headers are added to and set in Server.headers, a handler *)
(* builds a Response with headers of its own, and poll() merges the server *)
(* headers into it and sends it. arg.server is the storage of              *)
(* Server.headers, arg.own that of the response as the handler built it.   *)
(***************************************************************************)
MaxHeaderCalls == 3   \* calls that change Server.headers

HeaderNames == { <<"A">>, <<"a">>, <<"E">> }

HeaderTexts == { <<"1">>, <<"2">> }

OwnHeaders ==
    {<<>>} \cup { <<[name |-> n, value |-> v]>> : n \in {<<"A">>, <<"e">>}, v \in {<<"9">>} }

InitDefaults ==
    /\ arg = [server |-> <<>>, own |-> <<>>, calls |-> 0]
    /\ ServerInit
    /\ root_path = None
    /\ out = Idle

\* server.headers.add(name, value)
ServerHeadersAdd ==
    /\ arg.calls < MaxHeaderCalls
    /\ \E n \in HeaderNames, v \in HeaderTexts :
          arg' = [arg EXCEPT !.server = Headers_add(@, n, v), !.calls = @ + 1]
    /\ out' = [op |-> "add"]
    /\ UNCHANGED <<serverVars, routes>>

\* server.headers = {name: value}
ServerHeadersSet ==
    /\ arg.calls < MaxHeaderCalls
    /\ \E n \in HeaderNames, v \in HeaderTexts :
          arg' = [arg EXCEPT !.server = add_all(<<>>, <<[name |-> n, value |-> v]>>),
                             !.calls = @ + 1]
    /\ out' = [op |-> "set"]
    /\ UNCHANGED <<serverVars, routes>>

\* The handler returns Response(request, "hi", headers=own); poll() sets the
\* default headers and sends it
PollDefaults ==
    /\ \E own \in OwnHeaders :
          /\ arg' = [arg EXCEPT !.own = add_all(<<>>, own)]
          /\ out' = [op |-> "send",
                     sent |-> Response_send_headers(
                                set_default_server_headers(add_all(<<>>, own),
                                                           items(arg.server)),
                                NoneValue, <<"2">>, NoneValue)]
    /\ UNCHANGED <<serverVars, routes>>

NextDefaults == ServerHeadersAdd \/ ServerHeadersSet \/ PollDefaults

SpecDefaults == InitDefaults /\ [][NextDefaults]_vars

\* The values of the header lines of a name, in the order written
LineValues(lines, name) ==
    [i \in DOMAIN SelectSeq(lines, LAMBDA p : p.name = name) |->
        SelectSeq(lines, LAMBDA p : p.name = name)[i].value]

\* C22: every header of Server.headers is sent with every response, except
\* that a header the response itself set, under any casing of the name, is sent
\* with the value of the response only.
C22_ServerDefaultsSent ==
    out.op = "send" =>
        /\ out.sent.raised = NoError
        /\ \A i \in DOMAIN items(arg.server) :
              IF Headers_contains(arg.own, items(arg.server)[i].name)
              THEN LineValues(out.sent.lines, items(arg.server)[i].name)
                      = Headers_get_list(arg.own, items(arg.server)[i].name)
              ELSE \E j \in DOMAIN out.sent.lines :
                      out.sent.lines[j] = items(arg.server)[i]

\* The first value of every header of Server.headers that the response did not
\* set is sent, and what the response set is sent as it set it.
FirstServerValuesSent ==
    out.op = "send" =>
        /\ out.sent.raised = NoError
        /\ \A i \in DOMAIN arg.server :
              LineValues(out.sent.lines, arg.server[i].name)
                 = IF Headers_contains(arg.own, arg.server[i].name)
                   THEN Headers_get_list(arg.own, arg.server[i].name)
                   ELSE <<arg.server[i].values[1]>>
        /\ \A i \in DOMAIN arg.own :
              LineValues(out.sent.lines, arg.own[i].name) = arg.own[i].values

-----------------------------------------------------------------------------
(***************************************************************************)
(* response.py: the headers a response has after its constructor, the      *)
(* content type of its own and the one its _send passes to _send_headers.  *)
(***************************************************************************)
CacheControlName == <<"C", "a", "c", "h", "e", "-", "C", "o", "n", "t", "r", "o", "l">>

UpgradeName == <<"U", "p", "g", "r", "a", "d", "e">>

SecWebSocketAcceptName ==
    <<"S", "e", "c", "-", "W", "e", "b", "S", "o", "c", "k", "e", "t", "-", "A", "c",
     "c", "e", "p", "t">>

TransferEncodingName ==
    <<"T", "r", "a", "n", "s", "f", "e", "r", "-", "E", "n", "c", "o", "d", "i", "n",
     "g">>

LocationName == <<"L", "o", "c", "a", "t", "i", "o", "n">>

CallerContentTypeName == <<"c", "o", "n", "t", "e", "n", "t", "-", "T", "y", "p", "e">>

CallerConnectionName == <<"C", "o", "n", "n", "e", "c", "t", "i", "o", "n">>

\* The constructors of the subclasses, after Response.__init__
class_headers(kind, headers) ==
    CASE kind = "SSEResponse" ->
            Headers_setdefault(Headers_setdefault(headers, CacheControlName, <<"no-cache">>),
                               CallerConnectionName, <<"keep-alive">>)
      [] kind = "Websocket" ->
            Headers_setdefault(
                Headers_setdefault(
                    Headers_setdefault(
                        Headers_setdefault(headers, UpgradeName, <<"websocket">>),
                        CallerConnectionName, <<"Upgrade">>),
                    SecWebSocketAcceptName, <<"key">>),
                ContentTypeName, NoneValue)
      [] kind = "ChunkedResponse" ->
            Headers_setdefault(headers, TransferEncodingName, <<"chunked">>)
      [] kind = "Redirect" ->
            Headers_update(headers, <<[name |-> LocationName, value |-> <<"/x">>]>>)
      [] OTHER -> headers

\* self._content_type after the constructor; mime is what
\* MIMETypes.get_for_filename gives for the file
self_content_type(kind, content_type, mime) ==
    CASE kind \in {"Response", "ChunkedResponse"} -> content_type
      [] kind = "FileResponse" -> Or(content_type, mime)
      [] kind = "SSEResponse" -> <<"text/event-stream">>
      [] OTHER -> NoneValue

\* The content_type argument of _send_headers in the _send of the class
passed_content_type(kind, own_content_type) ==
    CASE kind \in {"Response", "FileResponse"} -> own_content_type
      [] kind = "JSONResponse" -> <<"application/json">>
      [] OTHER -> NoneValue

\* The content_length argument of _send_headers, for a body of two bytes
passed_content_length(kind) ==
    IF kind \in {"Response", "JSONResponse", "FileResponse"} THEN <<"2">> ELSE NoneValue

-----------------------------------------------------------------------------
(***************************************************************************)
(* SpecContentType: a handler builds a response of one of the classes,     *)
(* with or without a Content-Type and a Connection header and a            *)
(* content_type argument, and the server sends its header block.           *)
(***************************************************************************)
CallerHeaders ==
    { <<>>,
      <<[name |-> CallerContentTypeName, value |-> <<"a/b">>]>>,
      <<[name |-> CallerConnectionName, value |-> <<"keep">>]>>,
      <<[name |-> CallerConnectionName, value |-> <<"keep">>],
        [name |-> CallerContentTypeName, value |-> <<"a/b">>]>> }

ContentTypes == { NoneValue, <<>>, <<"c/d">> }

ResponseKinds ==
    {"Response", "JSONResponse", "FileResponse", "ChunkedResponse", "Redirect",
     "SSEResponse", "Websocket"}

TakesContentType(kind) == kind \in {"Response", "FileResponse", "ChunkedResponse"}

MimeOfFile == <<"mime">>

InitContentType ==
    /\ arg \in { a \in [kind : ResponseKinds, headers : CallerHeaders,
                       content_type : ContentTypes] :
                    TakesContentType(a.kind) \/ a.content_type = NoneValue }
    /\ ServerInit
    /\ root_path = None
    /\ out = Idle

\* The handler builds the response
BuildContentType ==
    /\ out.op = "idle"
    /\ out' = [op |-> "init",
               headers |-> class_headers(arg.kind, add_all(<<>>, arg.headers)),
               content_type |-> self_content_type(arg.kind, arg.content_type, MimeOfFile)]
    /\ UNCHANGED <<serverVars, routes, arg>>

\* response._send(): its header block
SendContentType ==
    /\ out.op = "init"
    /\ out' = [op |-> "send",
               sent |-> Response_send_headers(out.headers, out.content_type,
                            passed_content_length(arg.kind),
                            passed_content_type(arg.kind, out.content_type))]
    /\ UNCHANGED <<serverVars, routes, arg>>

NextContentType == BuildContentType \/ SendContentType

SpecContentType == InitContentType /\ [][NextContentType]_vars

\* The content type the response is described to be sent with
DescribedContentType ==
    IF Headers_contains(add_all(<<>>, arg.headers), ContentTypeName) THEN <<"a/b">>
    ELSE IF arg.kind = "JSONResponse" THEN <<"application/json">>
    ELSE IF arg.kind = "SSEResponse" THEN <<"text/event-stream">>
    ELSE IF arg.content_type = <<"c/d">> THEN <<"c/d">>
    ELSE IF arg.kind = "FileResponse" THEN MimeOfFile
    ELSE TextPlain

DescribedConnection ==
    IF Headers_contains(add_all(<<>>, arg.headers), ConnectionName) THEN <<"keep">>
    ELSE <<"close">>

\* C23: in the header block of a sent response, Content-Type is the header the
\* caller set if there is one, else the content type passed to _send_headers,
\* else the content type of the response, else text/plain; Connection is close
\* unless the caller set a Connection header (SSEResponse and Websocket, which
\* set Connection themselves, are left out of the second part).
C23_ContentTypeAndConnection ==
    out.op = "send" =>
        /\ out.sent.raised = NoError
        /\ LineValues(out.sent.lines, ContentTypeName) = <<DescribedContentType>>
        /\ arg.kind \notin {"SSEResponse", "Websocket"} =>
              LineValues(out.sent.lines, ConnectionName) = <<DescribedConnection>>

\* The same holds of every class but Websocket.
ContentTypeButWebsocket ==
    (out.op = "send" /\ arg.kind # "Websocket") =>
        /\ out.sent.raised = NoError
        /\ LineValues(out.sent.lines, ContentTypeName) = <<DescribedContentType>>
        /\ arg.kind # "SSEResponse" =>
              LineValues(out.sent.lines, ConnectionName) = <<DescribedConnection>>

\* A Websocket whose handler set no Content-Type is sent with the text None as
\* its Content-Type.
WebsocketContentTypeNone ==
    (out.op = "send" /\ arg.kind = "Websocket"
        /\ ~Headers_contains(add_all(<<>>, arg.headers), ContentTypeName)) =>
        LineValues(out.sent.lines, ContentTypeName) = << <<"N", "o", "n", "e">> >>

-----------------------------------------------------------------------------
(***************************************************************************)
(* response.py: SSEResponse.send_event and close, the message as the       *)
(* characters written.                                                     *)
(***************************************************************************)
\* An optional int argument: None or an int
NoneInt == [none |-> TRUE, value |-> 0]
SomeInt(n) == [none |-> FALSE, value |-> n]

DigitChar(d) ==
    CASE d = 0 -> "0" [] d = 1 -> "1" [] d = 2 -> "2" [] d = 3 -> "3" [] d = 4 -> "4"
      [] d = 5 -> "5" [] d = 6 -> "6" [] d = 7 -> "7" [] d = 8 -> "8" [] OTHER -> "9"

\* f"{n}" of an int that is not negative
RECURSIVE DecimalChars(_)
DecimalChars(n) ==
    IF n < 10 THEN <<DigitChar(n)>> ELSE Append(DecimalChars(n \div 10), DigitChar(n % 10))

\* f"{field}: {value}\n"
FieldLine(field, value) == field \o <<":", " ">> \o value \o <<"\n">>

RECURSIVE FieldLines(_)
FieldLines(pairs) ==
    IF pairs = <<>> THEN <<>>
    ELSE FieldLine(Head(pairs).name, Head(pairs).value) \o FieldLines(Tail(pairs))

\* if event:, for a str or None
TruthyText(text) == text # NoneValue /\ text # <<>>

\* if id:, for an int or None
TruthyInt(n) == ~n.none /\ n.value # 0

\* SSEResponse.send_event: the message
sse_message(data, event, id, retry, custom_fields) ==
    FieldLine(<<"d", "a", "t", "a">>, data)
        \o (IF TruthyText(event) THEN FieldLine(<<"e", "v", "e", "n", "t">>, event) ELSE <<>>)
        \o (IF TruthyInt(id) THEN FieldLine(<<"i", "d">>, DecimalChars(id.value)) ELSE <<>>)
        \o (IF TruthyInt(retry) THEN FieldLine(<<"r", "e", "t", "r", "y">>, DecimalChars(retry.value))
            ELSE <<>>)
        \o FieldLines(custom_fields)
        \o <<"\n">>

\* b"event: close\n"
SseCloseLine == <<"e", "v", "e", "n", "t", ":", " ", "c", "l", "o", "s", "e", "\n">>

\* The SSEResponse a handler returned and its connection: the header lines
\* poll() wrote and the buffers written since
NoSse == [sent |-> FALSE, open |-> FALSE, header |-> <<>>, wire |-> <<>>]

\* SSEResponse.send_event on a connection whose writes succeed
sse_send_event(sse, data, event, id, retry, custom_fields) ==
    [sse EXCEPT !.wire = Append(@, sse_message(data, event, id, retry, custom_fields))]

\* SSEResponse.close()
sse_close(sse) == [sse EXCEPT !.wire = Append(@, SseCloseLine), !.open = FALSE]

-----------------------------------------------------------------------------
(***************************************************************************)
(* SpecSSE: a server with the route "/a" is started; the handler of the    *)
(* first request returns an SSEResponse, which poll() sends; then the      *)
(* server is polled further while events are sent on the SSEResponse and   *)
(* it is closed. arg.sse is the SSEResponse and its connection, conn the   *)
(* connection of the last poll(). Writes succeed.                          *)
(***************************************************************************)
MaxEvents == 2       \* send_event calls on the SSEResponse
MaxLaterPolls == 2   \* poll() calls after the one that sent the SSEResponse

SseCallerHeaders ==
    { <<>>,
      <<[name |-> CallerConnectionName, value |-> <<"keep">>]>>,
      <<[name |-> CacheControlName, value |-> <<"c">>]>> }

EventData == { <<"d">>, <<"a", "\n", "\n", "b">> }

EventNames == { NoneValue, <<"e">> }

EventIds == { NoneInt, SomeInt(0), SomeInt(17) }

EventRetries == { NoneInt, SomeInt(5) }

EventCustomFields == { <<>>, <<[name |-> <<"f">>, value |-> <<"v">>]>> }

SseRequest ==
    [method |-> GET, path |-> <<"/", "a">>, authorization |-> NoHeader, handshake |-> FALSE]

InitSSE ==
    /\ arg \in [caller : SseCallerHeaders, sse : {NoSse}, events : {0}, polls : {0},
                closes : {0}]
    /\ ServerInit
    /\ root_path = None
    /\ out = Idle

RegisterSSE ==
    /\ stopped
    /\ last.op = "idle"
    /\ routes = <<>>
    /\ route(<<"/", "a">>, {GET}, "h1", FALSE)
    /\ UNCHANGED <<serverVars, arg>>

StartSSE ==
    /\ stopped
    /\ last.op = "idle"
    /\ routes # <<>>
    /\ start("0.0.0.0", "5000", TRUE, TRUE)
    /\ UNCHANGED <<arg, out>>

\* The poll() whose handler returns SSEResponse(request, headers=caller)
PollSSE ==
    /\ ~stopped
    /\ ~arg.sse.sent
    /\ poll(NoError, Received(SseRequest), [act |-> "SSEResponse", error |-> NoError],
            NoFault, "regular")
    /\ arg' = [arg EXCEPT
                 !.sse = [sent |-> TRUE, open |-> conn'.open,
                          header |-> Response_send_headers(
                                        class_headers("SSEResponse", add_all(<<>>, arg.caller)),
                                        self_content_type("SSEResponse", NoneValue, NoneValue),
                                        NoneValue, NoneValue).lines,
                          wire |-> <<>>]]
    /\ out' = [op |-> "poll"]

\* A later poll(): no connection is pending, or a request is answered by a
\* Response, or its handler raises
PollLater ==
    /\ ~stopped
    /\ arg.sse.sent
    /\ arg.polls < MaxLaterPolls
    /\ \/ poll(OSError(EAGAIN), NoReceive, NoBehaviour, NoFault, "regular")
       \/ \E hb \in {[act |-> "Response", error |-> NoError],
                     [act |-> "raise", error |-> Raised("ValueError")]} :
             poll(NoError, Received(SseRequest), hb, NoFault, "regular")
    /\ arg' = [arg EXCEPT !.polls = @ + 1]
    /\ out' = [op |-> "poll"]

SseEvent ==
    /\ arg.sse.sent
    /\ arg.sse.open
    /\ arg.events < MaxEvents
    /\ \E data \in EventData, event \in EventNames, id \in EventIds,
          retry \in EventRetries, custom_fields \in EventCustomFields :
          /\ arg' = [arg EXCEPT !.sse = sse_send_event(@, data, event, id, retry,
                                                       custom_fields),
                                !.events = @ + 1]
          /\ out' = [op |-> "send_event", data |-> data, event |-> event, id |-> id,
                     retry |-> retry, custom_fields |-> custom_fields]
    /\ UNCHANGED <<serverVars, routes>>

SseCloseCall ==
    /\ arg.sse.sent
    /\ arg.sse.open
    /\ arg' = [arg EXCEPT !.sse = sse_close(@), !.closes = @ + 1]
    /\ out' = [op |-> "close"]
    /\ UNCHANGED <<serverVars, routes>>

NextSSE == RegisterSSE \/ StartSSE \/ PollSSE \/ PollLater \/ SseEvent \/ SseCloseCall

SpecSSE == InitSSE /\ [][NextSSE]_vars

\* The lines of the event described for the arguments of the last send_event:
\* the data line and a line for every optional argument that was given
DescribedEventLines ==
    << <<"d", "a", "t", "a", ":", " ">> \o out.data >>
        \o (IF out.event # NoneValue THEN << <<"e", "v", "e", "n", "t", ":", " ">> \o out.event >> ELSE <<>>)
        \o (IF ~out.id.none THEN << <<"i", "d", ":", " ">> \o DecimalChars(out.id.value) >>
            ELSE <<>>)
        \o (IF ~out.retry.none
            THEN << <<"r", "e", "t", "r", "y", ":", " ">> \o DecimalChars(out.retry.value) >> ELSE <<>>)
        \o [i \in DOMAIN out.custom_fields |->
              out.custom_fields[i].name \o <<":", " ">> \o out.custom_fields[i].value]

LastWrite == arg.sse.wire[Len(arg.sse.wire)]

\* The header block of the SSEResponse and the life of its connection
SseHeadersAndConnection ==
    arg.sse.sent =>
        /\ LineValues(arg.sse.header, Lower(CacheControlName))
              = << Headers_get(add_all(<<>>, arg.caller), CacheControlName, <<"no-cache">>) >>
        /\ LineValues(arg.sse.header, ConnectionName)
              = << Headers_get(add_all(<<>>, arg.caller), ConnectionName, <<"keep-alive">>) >>
        /\ LineValues(arg.sse.header, ContentTypeName) = << <<"text/event-stream">> >>
        /\ arg.sse.open <=> (arg.closes = 0)
        /\ ~arg.sse.open => LastWrite = SseCloseLine
        /\ Len(arg.sse.wire) = arg.events + arg.closes

\* C24: once poll() has sent an SSEResponse, its header block, with
\* Cache-Control: no-cache and Connection: keep-alive unless overridden, is
\* written and the connection stays open over the later poll() calls until
\* close(), which writes the event: close line first; every send_event writes
\* one event: its data line, a line for each of event, id, retry and the custom
\* fields that were given, and one blank line, the last one.
C24_SseStream ==
    /\ SseHeadersAndConnection
    /\ out.op = "send_event" =>
          Split(LastWrite, "\n") = DescribedEventLines \o << <<>>, <<>> >>

\* The same for events whose data has no line break and whose id and retry are
\* not 0.
SseStreamOfPlainEvents ==
    /\ SseHeadersAndConnection
    /\ (out.op = "send_event" /\ out.data = <<"d">> /\ out.id # SomeInt(0)) =>
          Split(LastWrite, "\n") = DescribedEventLines \o << <<>>, <<>> >>

-----------------------------------------------------------------------------
(***************************************************************************)
(* server.py: a poll() during which stop() is called, by the handler or by *)
(* serve_forever, and Server.serve_forever.                                *)
(***************************************************************************)
\* poll_and_stop, were stop() to close the socket and leave stopped as it is
poll_and_stop_unflagged(r, stop_called) ==
    /\ conn' = r.conn
    /\ last' = r.last
    /\ stopped' = stopped
    /\ host' = IF stop_called THEN None ELSE host
    /\ port' = IF stop_called THEN None ELSE port
    /\ sock' = IF stop_called /\ sock.exists
               THEN [sock EXCEPT !.closed = TRUE, !.listening = FALSE] ELSE sock
    /\ UNCHANGED <<auths, root_path, routes>>

\* The state a poll() that was not refused leaves, r being what it did after
\* accept(); when stop_called, stop() was called during the poll() or after it
poll_and_stop(r, stop_called) ==
    /\ conn' = r.conn
    /\ last' = r.last
    /\ stopped' = (stopped \/ stop_called)
    /\ host' = IF stop_called THEN None ELSE host
    /\ port' = IF stop_called THEN None ELSE port
    /\ sock' = IF stop_called /\ sock.exists
               THEN [sock EXCEPT !.closed = TRUE, !.listening = FALSE] ELSE sock
    /\ UNCHANGED <<auths, root_path, routes>>

\* Where serve_forever is after an iteration whose poll() raised this: it
\* returns on KeyboardInterrupt and goes on with the loop otherwise.
serve_after_poll_reraising(raised) ==
    IF raised = KeyboardInterrupt THEN "returned"
    ELSE IF raised # NoError THEN "raised"
    ELSE "loop"

\* Where serve_forever is after an iteration whose poll() raised this
serve_after_poll(raised) == IF raised = KeyboardInterrupt THEN "returned" ELSE "loop"

\* One iteration of the loop of serve_forever: poll(), and stop() on KeyboardInterrupt
serve_iteration(r, handler_stops) ==
    /\ poll_and_stop(r, (handler_stops /\ r.last.handler_invoked)
                        \/ r.last.raised = KeyboardInterrupt)
    /\ out' = [out EXCEPT !.at = serve_after_poll(r.last.raised),
                          !.polls = @ + 1,
                          !.ignored = IF r.last.raised # NoError /\ IsException(r.last.raised)
                                      THEN @ + 1 ELSE @]

-----------------------------------------------------------------------------
(***************************************************************************)
(* SpecServe: serve_forever is called on a server with the route "/a";     *)
(* every iteration of its loop is one step. A handler may call stop().     *)
(* out.at says where the call is: in the loop, returned, or left by the    *)
(* error of start().                                                       *)
(***************************************************************************)
MaxServePolls == 3   \* iterations of the loop of serve_forever

ServeRequest ==
    [method |-> GET, path |-> <<"/", "a">>, authorization |-> NoHeader, handshake |-> FALSE]

ServeBehaviours ==
    { [NoBehaviour EXCEPT !.act = "Response"], NoBehaviour }
        \cup { [NoBehaviour EXCEPT !.act = "raise", !.error = e] :
                 e \in {Raised("ValueError"), OSError(ENOTCONN), OSError(ECONNRESET),
                        KeyboardInterrupt} }

InitServe ==
    /\ ServerInit
    /\ root_path = None
    /\ arg = Idle
    /\ out = Idle

RegisterServe ==
    /\ routes = <<>>
    /\ route(<<"/", "a">>, {GET}, "h1", FALSE)
    /\ UNCHANGED <<serverVars, arg>>

\* serve_forever(host, port) up to its loop: start()
ServeForever ==
    /\ out.op = "route"
    /\ \E getaddrinfo_ok \in BOOLEAN, socket_ok \in BOOLEAN :
          /\ start("0.0.0.0", "5000", getaddrinfo_ok, socket_ok)
          /\ out' = [op |-> "serve_forever",
                     at |-> IF getaddrinfo_ok /\ socket_ok THEN "loop" ELSE "raised",
                     polls |-> 0, ignored |-> 0]
    /\ UNCHANGED arg

\* An iteration with no pending connection or with an error of accept()
ServeNoConnection ==
    /\ out.op = "serve_forever" /\ out.at = "loop"
    /\ ~stopped
    /\ out.polls < MaxServePolls
    /\ \E e \in {OSError(EAGAIN), OSError(ENOTCONN)} :
          serve_iteration(poll_try(e, NoReceive, NoBehaviour, NoFault, "regular"), FALSE)
    /\ UNCHANGED arg

\* An iteration whose reads give no request
ServeNoRequest ==
    /\ out.op = "serve_forever" /\ out.at = "loop"
    /\ ~stopped
    /\ out.polls < MaxServePolls
    /\ \E r \in {NoReceive, [NoReceive EXCEPT !.header_bytes = <<"x">>],
                 [NoReceive EXCEPT !.raised = OSError(ENOTCONN)]} :
          serve_iteration(poll_try(NoError, r, NoBehaviour, NoFault, "regular"), FALSE)
    /\ UNCHANGED arg

\* An iteration that hands a request to the handler
ServeRequestHandled ==
    /\ out.op = "serve_forever" /\ out.at = "loop"
    /\ ~stopped
    /\ out.polls < MaxServePolls
    /\ \E hb \in ServeBehaviours, handler_stops \in BOOLEAN,
          fault \in {NoFault, [NoFault EXCEPT !.at = 1, !.error = OSError(ENOTCONN)]} :
          serve_iteration(poll_try(NoError, Received(ServeRequest), hb, fault, "regular"),
                          handler_stops)
    /\ UNCHANGED arg

\* while not self.stopped: the loop ends
ServeReturn ==
    /\ out.op = "serve_forever" /\ out.at = "loop"
    /\ stopped
    /\ out' = [out EXCEPT !.at = "returned"]
    /\ UNCHANGED <<serverVars, routes, arg>>

NextServe ==
    \/ RegisterServe
    \/ ServeForever
    \/ ServeNoConnection
    \/ ServeNoRequest
    \/ ServeRequestHandled
    \/ ServeReturn

SpecServe == InitServe /\ [][NextServe]_vars

\* A step of the loop of serve_forever
ServeLoopStep ==
    /\ out.op = "serve_forever" /\ out.at = "loop"
    /\ out' # out

\* C25: serve_forever keeps polling until the server is stopped: an iteration
\* whose poll() raises an exception (of the handler, of the parse, of the
\* socket) leaves the call in its loop, and the call returns only with the
\* server stopped, by stop() or by the KeyboardInterrupt that makes it call
\* stop().
C25_ServeStep ==
    ServeLoopStep =>
        /\ out'.at \in {"loop", "returned"}
        /\ out'.at = "returned" => stopped'
        /\ (~stopped /\ last'.raised # KeyboardInterrupt) => out'.at = "loop"
        /\ (~stopped /\ last'.raised # NoError /\ last'.raised # KeyboardInterrupt)
              => (out'.ignored = out.ignored + 1 /\ last'.op = "poll")

C25_ServeForeverLoops == [][C25_ServeStep]_vars

\* After an iteration whose poll() raised, a later iteration handled a request.
C25_Witness ==
    /\ out.op = "serve_forever" /\ out.at = "loop"
    /\ out.ignored = 2
    /\ out.polls = 3
    /\ last.result = REQUEST_HANDLED_RESPONSE_SENT
    /\ ~stopped

-----------------------------------------------------------------------------
(***************************************************************************)
(* SpecStop: start(), stop() and poll() on a server with the route "/a",   *)
(* whose handler may call stop() before it returns or raises. out counts   *)
(* the polls and says who stopped the server last.                         *)
(***************************************************************************)
MaxStopPolls == 3   \* calls of poll()

StopRequests ==
    [method : {GET}, path : {<<"/", "a">>, <<"/", "b">>},
     authorization : {NoHeader}, handshake : {FALSE}]

StopBehaviours ==
    { [NoBehaviour EXCEPT !.act = a] :
        a \in {"None", "Response", "JSONResponse", "ChunkedResponse", "Redirect",
               "SSEResponse"} }
        \cup { [NoBehaviour EXCEPT !.act = "raise", !.error = Raised("ValueError")] }

StopFaults == {NoFault, [NoFault EXCEPT !.at = 1, !.error = OSError(ENOTCONN)]}

NoPolls == [op |-> "idle", polls |-> 0, handler_stopped |-> FALSE, stopped_by |-> None]

InitStop ==
    /\ ServerInit
    /\ root_path = None
    /\ arg = Idle
    /\ out = NoPolls

RegisterStop ==
    /\ routes = <<>>
    /\ routes' = routes_extend(routes, <<Route(<<"/", "a">>, {GET}, "h1", FALSE)>>)
    /\ UNCHANGED <<serverVars, arg, out>>

StartStop ==
    /\ routes # <<>>
    /\ \E getaddrinfo_ok \in BOOLEAN, socket_ok \in BOOLEAN :
          start("0.0.0.0", "5000", getaddrinfo_ok, socket_ok)
    /\ out' = [out EXCEPT !.op = "start", !.handler_stopped = FALSE,
                          !.stopped_by = IF stopped' THEN @ ELSE None]
    /\ UNCHANGED arg

\* stop() called between two polls
StopBetween ==
    /\ sock.exists
    /\ stop
    /\ out' = [out EXCEPT !.op = "stop", !.handler_stopped = FALSE, !.stopped_by = "caller"]
    /\ UNCHANGED arg

\* poll() on a stopped server
PollStopped ==
    /\ stopped
    /\ out.polls < MaxStopPolls
    /\ poll(NoError, NoReceive, NoBehaviour, NoFault, "regular")
    /\ out' = [out EXCEPT !.op = "poll", !.polls = @ + 1, !.handler_stopped = FALSE]
    /\ UNCHANGED arg

\* poll() on a started server; the handler, when it is called, may call stop()
PollStopping ==
    /\ ~stopped
    /\ out.polls < MaxStopPolls
    /\ \E q \in StopRequests, hb \in StopBehaviours, fault \in StopFaults,
          handler_stops \in BOOLEAN :
          LET r == poll_try(NoError, Received(q), hb, fault, "regular")
              stop_called == handler_stops /\ r.last.handler_invoked
          IN /\ poll_and_stop(r, stop_called)
             /\ out' = [out EXCEPT !.op = "poll", !.polls = @ + 1,
                                   !.handler_stopped = stop_called,
                                   !.stopped_by = IF stop_called THEN "handler" ELSE @]
    /\ UNCHANGED arg

\* poll() with no pending connection
PollNothing ==
    /\ ~stopped
    /\ out.polls < MaxStopPolls
    /\ poll(OSError(EAGAIN), NoReceive, NoBehaviour, NoFault, "regular")
    /\ out' = [out EXCEPT !.op = "poll", !.polls = @ + 1, !.handler_stopped = FALSE]
    /\ UNCHANGED arg

NextStop ==
    \/ RegisterStop
    \/ StartStop
    \/ StopBetween
    \/ PollStopped
    \/ PollStopping
    \/ PollNothing

SpecStop == InitStop /\ [][NextStop]_vars

\* The poll() of this step ran a handler that called stop() and returned a
\* response that is closed when sent, and the writes of the response succeeded
StoppedWhileResponding ==
    /\ out'.polls = out.polls + 1
    /\ out'.handler_stopped
    /\ last'.response # NoResponse
    /\ ~KeepsConnection(last'.response)
    /\ last'.send_error = NoError

\* C26: stop() called by the handler of the request in progress closes the
\* listening socket only: the response is sent whole on the connection and
\* that poll() returns REQUEST_HANDLED_RESPONSE_SENT; from then on, until
\* start() is called, every poll() raises ServerStoppedError without
\* accepting a connection.
C26_StopStep ==
    /\ StoppedWhileResponding =>
          /\ last'.result = REQUEST_HANDLED_RESPONSE_SENT
          /\ last'.raised = NoError
          /\ conn'.wire = Writes(last'.response)
          /\ ~conn'.reset
          /\ sock'.closed /\ ~sock'.listening
          /\ stopped'
    /\ (out.stopped_by = "handler" /\ out'.polls = out.polls + 1) =>
          /\ stopped
          /\ last'.raised = Raised("ServerStoppedError")
          /\ ~last'.accept_called
          /\ conn' = conn

C26_StopInsideHandler == [][C26_StopStep]_vars

\* A poll() after the one whose handler stopped the server and whose response was sent
C26_Witness ==
    /\ out.stopped_by = "handler"
    /\ out.op = "poll" /\ ~out.handler_stopped
    /\ last.raised = Raised("ServerStoppedError")
    /\ conn.wire = <<"H", "B">>
    /\ ~conn.open

-----------------------------------------------------------------------------
(***************************************************************************)
(* SpecHeaders: a Headers object, empty at first, on which add, set,       *)
(* headers[name] = v and del headers[name] are called with names in both   *)
(* casings, and which get, get_list, `in` and headers[name] read. arg is   *)
(* the object, out the last call.                                          *)
(***************************************************************************)
MaxHeaderOps == 4   \* calls that change the Headers object

StoredValues == {<<"1">>, <<"2">>}

HeaderDefaults == {NoneValue, <<"d">>}

HeadersCall(op, name, value) ==
    [op |-> op, name |-> name, value |-> value, raised |-> NoError, result |-> <<>>,
     found |-> FALSE]

InitHeaders ==
    /\ ServerInit
    /\ root_path = None
    /\ arg = [storage |-> <<>>, ops |-> 0]
    /\ out = HeadersCall("init", <<>>, <<>>)

CallHeadersAdd ==
    /\ arg.ops < MaxHeaderOps
    /\ \E name \in HeaderNames, value \in StoredValues :
          /\ arg' = [storage |-> Headers_add(arg.storage, name, value), ops |-> arg.ops + 1]
          /\ out' = HeadersCall("add", name, value)
    /\ UNCHANGED <<serverVars, routes>>

CallHeadersSet ==
    /\ arg.ops < MaxHeaderOps
    /\ \E name \in HeaderNames, value \in StoredValues :
          /\ arg' = [storage |-> Headers_set(arg.storage, name, value), ops |-> arg.ops + 1]
          /\ out' = HeadersCall("set", name, value)
    /\ UNCHANGED <<serverVars, routes>>

\* headers[name] = value
CallHeadersSetItem ==
    /\ arg.ops < MaxHeaderOps
    /\ \E name \in HeaderNames, value \in StoredValues :
          /\ arg' = [storage |-> Headers_setitem(arg.storage, name, value),
                     ops |-> arg.ops + 1]
          /\ out' = HeadersCall("setitem", name, value)
    /\ UNCHANGED <<serverVars, routes>>

\* del headers[name]
CallHeadersDelItem ==
    /\ arg.ops < MaxHeaderOps
    /\ \E name \in HeaderNames :
          /\ arg' = [storage |-> Headers_delitem(arg.storage, name).storage,
                     ops |-> arg.ops + 1]
          /\ out' = [HeadersCall("delitem", name, <<>>) EXCEPT
                        !.raised = Headers_delitem(arg.storage, name).raised]
    /\ UNCHANGED <<serverVars, routes>>

CallHeadersGet ==
    /\ \E name \in HeaderNames, default \in HeaderDefaults :
          out' = [HeadersCall("get", name, default) EXCEPT
                     !.result = Headers_get(arg.storage, name, default)]
    /\ UNCHANGED <<serverVars, routes, arg>>

CallHeadersGetList ==
    /\ \E name \in HeaderNames :
          out' = [HeadersCall("get_list", name, <<>>) EXCEPT
                     !.result = Headers_get_list(arg.storage, name)]
    /\ UNCHANGED <<serverVars, routes, arg>>

\* name in headers
CallHeadersContains ==
    /\ \E name \in HeaderNames :
          out' = [HeadersCall("contains", name, <<>>) EXCEPT
                     !.found = Headers_contains(arg.storage, name)]
    /\ UNCHANGED <<serverVars, routes, arg>>

\* headers[name]
CallHeadersGetItem ==
    /\ \E name \in HeaderNames :
          out' = [HeadersCall("getitem", name, <<>>) EXCEPT
                     !.raised = Headers_getitem(arg.storage, name).raised,
                     !.result = Headers_getitem(arg.storage, name).value]
    /\ UNCHANGED <<serverVars, routes, arg>>

NextHeaders ==
    \/ CallHeadersAdd
    \/ CallHeadersSet
    \/ CallHeadersSetItem
    \/ CallHeadersDelItem
    \/ CallHeadersGet
    \/ CallHeadersGetList
    \/ CallHeadersContains
    \/ CallHeadersGetItem

SpecHeaders == InitHeaders /\ [][NextHeaders]_vars

\* The values the object holds for a name, whatever its casing: those of the
\* entries of the storage whose name is the name but for the casing
RECURSIVE ValuesOf(_, _)
ValuesOf(storage, name) ==
    IF storage = <<>> THEN <<>>
    ELSE (IF Lower(Head(storage).name) = Lower(name) THEN Head(storage).values ELSE <<>>)
         \o ValuesOf(Tail(storage), name)

SameName(a, b) == Lower(a) = Lower(b)

\* What the calls that change the object do to the values of every name
HeadersWriteStep ==
    \A name \in HeaderNames :
        /\ out'.op = "add" =>
              ValuesOf(arg'.storage, name) =
                 IF SameName(name, out'.name)
                 THEN Append(ValuesOf(arg.storage, name), out'.value)
                 ELSE ValuesOf(arg.storage, name)
        /\ out'.op \in {"set", "setitem"} =>
              ValuesOf(arg'.storage, name) =
                 IF SameName(name, out'.name) THEN <<out'.value>>
                 ELSE ValuesOf(arg.storage, name)

\* What the calls that read the object give
HeadersReadStep ==
    /\ out'.op \in {"get", "get_list", "contains", "getitem"} => arg' = arg
    /\ out'.op = "get" =>
          out'.result = IF ValuesOf(arg.storage, out'.name) = <<>> THEN out'.value
                        ELSE Head(ValuesOf(arg.storage, out'.name))
    /\ out'.op = "get_list" => out'.result = ValuesOf(arg.storage, out'.name)
    /\ out'.op = "contains" => (out'.found <=> ValuesOf(arg.storage, out'.name) # <<>>)
    /\ out'.op = "getitem" =>
          IF ValuesOf(arg.storage, out'.name) = <<>> THEN out'.raised = Raised("KeyError")
          ELSE /\ out'.raised = NoError
               /\ out'.result = Head(ValuesOf(arg.storage, out'.name))
    /\ out'.op \in {"get", "get_list", "contains"} => out'.raised = NoError

\* C27: Headers is a multimap whose names do not tell the casings apart:
\* add appends the value after those stored under any casing of the name;
\* set and headers[name] = v leave the one value for the name; get gives the
\* first value or the default, get_list all the values in the order they were
\* added or the empty list, `in` holds for any casing of a stored name; get
\* and get_list do not fail for a name that is not stored and headers[name]
\* raises KeyError for it.
C27_HeadersStep == out' # out => (HeadersWriteStep /\ HeadersReadStep)

C27_HeadersMultimap == [][C27_HeadersStep]_vars

\* get_list read two values added under the two casings of a name, in order
C27_Witness ==
    /\ out.op = "get_list"
    /\ out.name = <<"A">>
    /\ out.result = <<<<"2">>, <<"1">>>>
    /\ arg.storage[1].name = <<"a">>
    /\ Len(arg.storage) = 2

-----------------------------------------------------------------------------
(***************************************************************************)
(* response.py: Redirect.__init__ and Redirect._send. A status is its code *)
(* and text, as in the status line.                                        *)
(***************************************************************************)
MOVED_PERMANENTLY_301 == "301 Moved Permanently"

TEMPORARY_REDIRECT_307 == "307 Temporary Redirect"

PERMANENT_REDIRECT_308 == "308 Permanent Redirect"

\* status=None, and the response that was not created
NoStatus == None

NoRedirect == [created |-> FALSE, raised |-> NoError, status |-> NoStatus, headers |-> <<>>]

\* Response.__init__: headers.copy() of a Headers object, Headers(headers) of a dict
init_headers(is_headers, pairs) ==
    IF is_headers THEN Headers_copy(add_all(<<>>, pairs))
    ELSE [raised |-> NoError, storage |-> add_all(<<>>, pairs)]

\* The status Redirect chooses when none is given
redirect_status(permanent, preserve_method) ==
    IF preserve_method
    THEN (IF permanent THEN PERMANENT_REDIRECT_308 ELSE TEMPORARY_REDIRECT_307)
    ELSE (IF permanent THEN MOVED_PERMANENTLY_301 ELSE FOUND_302)

\* Redirect.__init__ from super().__init__ on, were the Location added to the
\* headers of the caller rather than set
redirect_created_adding(url, status, copied) ==
    IF copied.raised # NoError THEN [NoRedirect EXCEPT !.raised = copied.raised]
    ELSE [created |-> TRUE, raised |-> NoError, status |-> status,
          headers |-> Headers_add(copied.storage, LocationName, url)]

\* Redirect.__init__ from super().__init__ on
redirect_created(url, status, copied) ==
    IF copied.raised # NoError THEN [NoRedirect EXCEPT !.raised = copied.raised]
    ELSE [created |-> TRUE, raised |-> NoError, status |-> status,
          headers |-> Headers_update(copied.storage, <<[name |-> LocationName, value |-> url]>>)]

\* Redirect(request, url, permanent=, preserve_method=, status=, headers=)
Redirect_init(url, permanent, preserve_method, status, is_headers, pairs) ==
    IF status # NoStatus /\ (permanent \/ preserve_method)
    THEN [NoRedirect EXCEPT !.raised = Raised("ValueError")]
    ELSE redirect_created(url,
                          IF status = NoStatus THEN redirect_status(permanent, preserve_method)
                          ELSE status,
                          init_headers(is_headers, pairs))

\* Redirect._send: the status line and the header lines, then the connection is closed
Redirect_send_headers(response) ==
    [status |-> response.status,
     sent |-> Response_send_headers(response.headers, NoneValue, NoneValue, NoneValue),
     closed |-> Response_send_headers(response.headers, NoneValue, NoneValue, NoneValue).raised
                   = NoError]

-----------------------------------------------------------------------------
(***************************************************************************)
(* SpecRedirect: a handler builds a Redirect, with or without flags, a     *)
(* status and headers of its own, and the server sends it. arg is the call *)
(* and the response it gave, out what was sent.                            *)
(***************************************************************************)
RedirectUrls == {<<"/", "n">>, <<"h", ":", "/", "/", "x">>}

SEE_OTHER_303 == "303 See Other"

GivenStatuses == {NoStatus, FOUND_302, SEE_OTHER_303}

CallerLocationName == <<"l", "o", "c", "A", "t", "i", "o", "n">>

RedirectCallerHeaders ==
    { <<>>,
      <<[name |-> LocationName, value |-> <<"/", "o">>]>>,
      <<[name |-> LocationName, value |-> <<"/", "o">>],
        [name |-> CallerLocationName, value |-> <<"/", "p">>]>>,
      <<[name |-> <<"E">>, value |-> <<"1">>]>> }

InitRedirect ==
    /\ ServerInit
    /\ root_path = None
    /\ arg = Idle
    /\ out = Idle

BuildRedirect ==
    /\ \E url \in RedirectUrls, permanent \in BOOLEAN, preserve_method \in BOOLEAN,
          status \in GivenStatuses, is_headers \in BOOLEAN, pairs \in RedirectCallerHeaders :
          arg' = [op |-> "Redirect", url |-> url, permanent |-> permanent,
                  preserve_method |-> preserve_method, status |-> status,
                  is_headers |-> is_headers, pairs |-> pairs,
                  response |-> Redirect_init(url, permanent, preserve_method, status,
                                             is_headers, pairs)]
    /\ out' = Idle
    /\ UNCHANGED <<serverVars, routes>>

SendRedirect ==
    /\ arg.op = "Redirect"
    /\ arg.response.created
    /\ out.op = "idle"
    /\ out' = [op |-> "send", written |-> Redirect_send_headers(arg.response)]
    /\ UNCHANGED <<serverVars, routes, arg>>

NextRedirect ==
    \/ BuildRedirect
    \/ SendRedirect

SpecRedirect == InitRedirect /\ [][NextRedirect]_vars

\* The code of a status of the model
StatusCode(status) ==
    CASE status = "301 Moved Permanently" -> 301
      [] status = "302 Found" -> 302
      [] status = "303 See Other" -> 303
      [] status = "307 Temporary Redirect" -> 307
      [] status = "308 Permanent Redirect" -> 308
      [] OTHER -> 0

\* The code the flags stand for
FlagStatus(permanent, preserve_method) ==
    CASE ~permanent /\ ~preserve_method -> 302
      [] permanent /\ ~preserve_method -> 301
      [] ~permanent /\ preserve_method -> 307
      [] permanent /\ preserve_method -> 308

\* C28: a Redirect built without a status has the status 302, 301, 307 or 308
\* that its flags stand for; built with a status and a flag it is not
\* created and the call raises ValueError; every Redirect that is created
\* holds, and sends, one Location header, whose value is the URL, whatever
\* Location headers the caller passed.
C28_RedirectStatusAndLocation ==
    /\ arg.op = "Redirect" =>
          /\ (arg.status = NoStatus) =>
                /\ arg.response.created
                /\ StatusCode(arg.response.status) = FlagStatus(arg.permanent, arg.preserve_method)
          /\ (arg.status # NoStatus /\ (arg.permanent \/ arg.preserve_method)) =>
                /\ ~arg.response.created
                /\ arg.response.raised = Raised("ValueError")
          /\ (arg.status # NoStatus /\ ~arg.permanent /\ ~arg.preserve_method) =>
                /\ arg.response.created
                /\ arg.response.status = arg.status
          /\ arg.response.created =>
                Headers_get_list(arg.response.headers, LocationName) = <<arg.url>>
    /\ out.op = "send" =>
          /\ out.written.sent.raised = NoError
          /\ out.written.status = arg.response.status
          /\ LineValues(out.written.sent.lines, Lower(LocationName)) = <<arg.url>>

\* A permanent, method-preserving Redirect whose caller passed two Location
\* headers was sent
C28_Witness ==
    /\ out.op = "send"
    /\ arg.permanent /\ arg.preserve_method
    /\ Len(arg.pairs) = 2
    /\ arg.is_headers
    /\ StatusCode(out.written.status) = 308

-----------------------------------------------------------------------------
(***************************************************************************)
(* request.py: FormData.__init__, FormData._parse_multipart_form_data and  *)
(* File.content_bytes; headers.py: get_directive and get_parameter. A byte *)
(* that is an ASCII character is that character; the other bytes of the    *)
(* model are "<C3>", "<A9>" and "<FF>". A text is a sequence of            *)
(* characters, a value is a text (str) or a sequence of bytes (bytes). A   *)
(* word that the code does not look into is one element of a text.        *)
(***************************************************************************)
HighBytes == {"<C2>", "<C3>", "<83>", "<A9>", "<BF>", "<FF>"}

\* bytes.decode("utf-8"), for the bytes of the model, from the i-th on
RECURSIVE utf8_decode_from(_, _, _)
utf8_decode_from(bytes, i, text) ==
    IF i > Len(bytes) THEN [raised |-> NoError, text |-> text]
    ELSE IF bytes[i] \notin HighBytes THEN utf8_decode_from(bytes, i + 1, Append(text, bytes[i]))
    ELSE IF IsPrefixAt(bytes, i, <<"<C3>", "<A9>">>)
    THEN utf8_decode_from(bytes, i + 2, Append(text, "é"))
    ELSE [raised |-> Raised("UnicodeDecodeError"), text |-> <<>>]

utf8_decode(bytes) == utf8_decode_from(bytes, 1, <<>>)

\* bytes.decode("latin-1"): every byte is the character of its number
latin1_char(byte) ==
    CASE byte = "<C3>" -> "Ã" [] byte = "<A9>" -> "©" [] byte = "<FF>" -> "ÿ"
      [] OTHER -> byte

latin1_decode(bytes) == [raised |-> NoError, text |-> [i \in DOMAIN bytes |-> latin1_char(bytes[i])]]

\* bytes.bytes_decode(charset)
bytes_decode(bytes, charset) ==
    IF charset = <<"latin-1">> THEN latin1_decode(bytes)
    ELSE utf8_decode(bytes)

\* str.encode("utf-8"), for the characters of the model
utf8_bytes(char) ==
    CASE char = "é" -> <<"<C3>", "<A9>">>
      [] char = "Ã" -> <<"<C3>", "<83>">>
      [] char = "©" -> <<"<C2>", "<A9>">>
      [] char = "ÿ" -> <<"<C3>", "<BF>">>
      [] OTHER -> <<char>>

utf8_encode(text) == Concat([i \in DOMAIN text |-> utf8_bytes(text[i])])

\* bytes.split(sep) for a separator of any length
RECURSIVE SplitBy(_, _)
SplitBy(s, sep) ==
    IF find(s, sep) = -1 THEN <<s>>
    ELSE <<SliceTo(s, find(s, sep))>> \o SplitBy(SliceFrom(s, find(s, sep) + Len(sep)), sep)

QuoteOrSpace == {"\"", " "}

\* Headers.Headers_get_directive(name, default)
Headers_get_directive(storage, name, default) ==
    IF Headers_get(storage, name, NoneValue) = NoneValue THEN default
    ELSE Strip(Split(Headers_get(storage, name, NoneValue), ";")[1], QuoteOrSpace)

\* The loop of get_parameter over header_value.split(";")
RECURSIVE parameter_of(_, _, _)
parameter_of(header_parameters, parameter, default) ==
    IF header_parameters = <<>> THEN [raised |-> NoError, value |-> default]
    ELSE IF StartsWith(Strip(Head(header_parameters), Whitespace), parameter)
    THEN (IF Len(Split(Strip(Head(header_parameters), Whitespace), "=")) < 2
          THEN [raised |-> Raised("IndexError"), value |-> default]
          ELSE [raised |-> NoError,
                value |-> Strip(Split(Strip(Head(header_parameters), Whitespace), "=")[2],
                                QuoteOrSpace)])
    ELSE parameter_of(Tail(header_parameters), parameter, default)

\* Headers.Headers_get_parameter(name, parameter, default)
Headers_get_parameter(storage, name, parameter, default) ==
    IF Headers_get(storage, name, NoneValue) = NoneValue
    THEN [raised |-> NoError, value |-> default]
    ELSE parameter_of(Split(Headers_get(storage, name, NoneValue), ";"), parameter, default)

ContentDispositionName == <<"C", "ontent-", "D", "isposition">>

HeaderContentTypeName == <<"C", "ontent-", "T", "ype">>

Utf8Name == <<"utf-8">>

StrValue(text) == [type |-> "str", data |-> text]

BytesValue(bytes) == [type |-> "bytes", data |-> bytes]

\* File(filename, content_type, content)
File(filename, content_type, content) ==
    [filename |-> filename, content_type |-> content_type, content |-> content]

\* File.content_bytes
content_bytes(file) ==
    IF file.content.type = "str" THEN utf8_encode(file.content.data) ELSE file.content.data

NoForm == [raised |-> NoError, fields |-> <<>>, files |-> <<>>]

\* The body of the loop of _parse_multipart_form_data once the headers of the
\* block are read: form is what the blocks before gave
parse_block_content(form, field_name, filename, content_type, content, decoded) ==
    IF content_type = TextPlain /\ decoded.raised # NoError
    THEN [form EXCEPT !.raised = decoded.raised]
    ELSE IF filename # NoneValue
    THEN [form EXCEPT !.files =
             add_field_value(@, field_name,
                             File(filename, content_type,
                                  IF content_type = TextPlain THEN StrValue(decoded.text)
                                  ELSE BytesValue(content)))]
    ELSE [form EXCEPT !.fields =
             add_field_value(@, field_name,
                             IF content_type = TextPlain THEN StrValue(decoded.text)
                             ELSE BytesValue(content))]

\* The body of the loop from the headers of the block on
parse_block_headers(form, headers, content_bytes_) ==
    parse_block_content(form,
                        Headers_get_parameter(headers, ContentDispositionName, <<"name">>,
                                      NoneValue).value,
                        Headers_get_parameter(headers, ContentDispositionName,
                                      <<"filename">>, NoneValue).value,
                        Headers_get_directive(headers, HeaderContentTypeName, TextPlain),
                        SliceTo(content_bytes_, -2),
                        bytes_decode(SliceTo(content_bytes_, -2),
                               Headers_get_parameter(headers, HeaderContentTypeName,
                                             <<"charset">>,
                                             Utf8Name).value))

\* The body of the loop from Headers(header_bytes.decode("utf-8").strip()) on
parse_block_parsed(form, parsed, content_bytes_) ==
    IF parsed.raised # NoError THEN [form EXCEPT !.raised = parsed.raised]
    ELSE parse_block_headers(form, add_all(<<>>, parsed.fields), content_bytes_)

\* The body of the loop from the unpacking of block.split(b"\r\n\r\n", 1) on
parse_block_split(form, pieces) ==
    IF Len(pieces) # 2 THEN [form EXCEPT !.raised = Raised("ValueError")]
    ELSE parse_block_parsed(form, Headers(utf8_decode(pieces[1]).text), pieces[2])

\* One block of the loop of _parse_multipart_form_data
parse_block(form, block) == parse_block_split(form, SplitOnce(block, EmptyLine))

RECURSIVE parse_blocks(_, _)
parse_blocks(form, blocks) ==
    IF blocks = <<>> \/ form.raised # NoError THEN form
    ELSE parse_blocks(parse_block(form, Head(blocks)), Tail(blocks))

\* FormData._parse_multipart_form_data(data, boundary)
parse_multipart_form_data(data, boundary) ==
    parse_blocks(NoForm,
                 SubSeq(SplitBy(data, <<"-", "-">> \o boundary), 2,
                        Len(SplitBy(data, <<"-", "-">> \o boundary)) - 1))

MultipartFormData == <<"multipart/form-data">>

\* FormData(data, headers) of a request whose Content-Type is multipart/form-data
FormData_init(data, headers) ==
    IF Headers_get_directive(headers, HeaderContentTypeName, NoneValue) = MultipartFormData
    THEN parse_multipart_form_data(
            SliceTo(data, DigitsValue(Headers_get(headers, ContentLengthName, <<"0">>))),
            Headers_get_parameter(headers, HeaderContentTypeName,
                          <<"boundary">>, NoneValue).value)
    ELSE NoForm

-----------------------------------------------------------------------------
(***************************************************************************)
(* SpecForm: a client posts a multipart/form-data body of up to MaxParts   *)
(* parts, fields and files of several content types and contents, and the  *)
(* handler reads request.form_data. arg is the parts, the body and the     *)
(* headers of the request, out what FormData gave.                         *)
(***************************************************************************)
MaxParts == 2   \* parts of a body

Boundary == <<"B">>

PartContentTypes ==
    { NoneValue, TextPlain,
      TextPlain \o <<";", " ", "charset", "=", "latin-1">>,
      <<"a", "/", "b">> }

PartContents ==
    { <<>>, <<"x">>, <<"x", "\r", "\n">>, <<"<C3>", "<A9>">>, <<"<FF>">> }

Parts ==
    [name : {<<"a">>}, filename : {NoneValue, <<"f">>}, content_type : PartContentTypes,
     content : PartContents]

SecondParts ==
    [name : {<<"a">>, <<"b">>}, filename : {NoneValue, <<"f">>},
     content_type : {<<"a", "/", "b">>}, content : {<<"y">>}]

LaterParts == UNION { [1..n -> SecondParts] : n \in 0..(MaxParts - 1) }

\* The bytes of a part, from the end of the boundary line before it to the
\* boundary after it
PartBytes(part) ==
    CRLF \o ContentDispositionName
        \o <<":", " ", "form-data", ";", " ">>
        \o <<"name", "=", "\"">> \o part.name \o <<"\"">>
        \o (IF part.filename = NoneValue THEN <<>>
            ELSE <<";", " ", "filename", "=", "\"">>
                    \o part.filename \o <<"\"">>)
        \o (IF part.content_type = NoneValue THEN <<>>
            ELSE CRLF \o HeaderContentTypeName \o <<":", " ">> \o part.content_type)
        \o EmptyLine \o part.content \o CRLF

RECURSIVE MultipartBody(_)
MultipartBody(parts) ==
    IF parts = <<>> THEN <<"-", "-">> \o Boundary \o <<"-", "-">> \o CRLF
    ELSE <<"-", "-">> \o Boundary \o PartBytes(Head(parts)) \o MultipartBody(Tail(parts))

FormRequestHeaders(body) ==
    add_all(<<>>,
            << [name |-> HeaderContentTypeName,
                value |-> MultipartFormData
                             \o <<";", " ", "boundary", "=">>
                             \o Boundary],
               [name |-> ContentLengthName, value |-> DecimalChars(Len(body))] >>)

InitForm ==
    /\ ServerInit
    /\ root_path = None
    /\ arg = Idle
    /\ out = Idle

PostForm ==
    /\ \E first \in Parts, rest \in LaterParts :
          arg' = [op |-> "post", parts |-> <<first>> \o rest,
                  body |-> MultipartBody(<<first>> \o rest),
                  headers |-> FormRequestHeaders(MultipartBody(<<first>> \o rest))]
    /\ out' = Idle
    /\ UNCHANGED <<serverVars, routes>>

\* request.form_data
ReadForm ==
    /\ arg.op = "post"
    /\ out.op = "idle"
    /\ out' = [op |-> "form_data", form |-> FormData_init(arg.body, arg.headers)]
    /\ UNCHANGED <<serverVars, routes, arg>>

NextForm ==
    \/ PostForm
    \/ ReadForm

SpecForm == InitForm /\ [][NextForm]_vars

\* The charset of a part
PartCharset(part) ==
    IF part.content_type # NoneValue /\ Contains(part.content_type, <<"latin-1">>)
    THEN <<"latin-1">> ELSE Utf8Name

IsField(part) == part.filename = NoneValue

\* The parts before the i-th that are of its kind and under its name
EarlierAlike(parts, i) ==
    Cardinality({j \in 1..(i - 1) : /\ parts[j].name = parts[i].name
                                    /\ IsField(parts[j]) = IsField(parts[i])})

\* What FormData holds for the i-th part
Parsed(form, parts, i) ==
    IF IsField(parts[i])
    THEN Headers_get_list(form.fields, parts[i].name)[EarlierAlike(parts, i) + 1]
    ELSE Headers_get_list(form.files, parts[i].name)[EarlierAlike(parts, i) + 1]

HasParsed(form, parts, i) ==
    IF IsField(parts[i])
    THEN Len(Headers_get_list(form.fields, parts[i].name)) > EarlierAlike(parts, i)
    ELSE Len(Headers_get_list(form.files, parts[i].name)) > EarlierAlike(parts, i)

\* The i-th part is in FormData as the claim says
PartAsDescribed(form, parts, i) ==
    /\ HasParsed(form, parts, i)
    /\ IF IsField(parts[i])
       THEN Parsed(form, parts, i) = StrValue(bytes_decode(parts[i].content, PartCharset(parts[i])).text)
       ELSE /\ Parsed(form, parts, i).filename = parts[i].filename
            /\ content_bytes(Parsed(form, parts, i)) = parts[i].content

\* C29: of a multipart/form-data body, every part without a filename is a
\* form field under its name whose value is the content decoded with the
\* charset of the part (UTF-8 when it names none), every part with a filename
\* is a file of that filename whose bytes are the bytes of the part, whatever
\* its content type and its bytes, and the "\r\n" before the next boundary is
\* not in the content.
C29_MultipartParts ==
    out.op = "form_data" =>
        /\ out.form.raised = NoError
        /\ \A i \in DOMAIN arg.parts : PartAsDescribed(out.form, arg.parts, i)

\* What of it holds: the fields of text/plain parts whose bytes decode, and
\* the files of the parts of another content type
TextFieldsAndBinaryFiles ==
    (out.op = "form_data" /\ out.form.raised = NoError) =>
        \A i \in DOMAIN arg.parts :
            (IF IsField(arg.parts[i])
             THEN arg.parts[i].content_type # <<"a", "/", "b">>
             ELSE arg.parts[i].content_type = <<"a", "/", "b">>)
                => PartAsDescribed(out.form, arg.parts, i)

\* FormData fails when a text/plain part holds bytes that its charset does not decode
FormDataRaises ==
    out.op = "form_data" =>
        (out.form.raised # NoError <=>
            \E i \in DOMAIN arg.parts :
                /\ arg.parts[i].content_type \in {NoneValue, TextPlain}
                /\ arg.parts[i].content = <<"<FF>">>)

-----------------------------------------------------------------------------
(***************************************************************************)
(* response.py: Websocket.send_message with its opcode argument, which is  *)
(* None or an int, and with the types of the message: TEXT makes the       *)
(* message be encoded, which a str only can be, and the frame is extended  *)
(* by the message, which bytearray.extend takes from bytes and, on the     *)
(* builds whose str is a buffer, from a str.                               *)
(***************************************************************************)
\* The opcode that `opcode or (...)` tests: None and 0 are both false
opcode_or_zero(opcode) == IF opcode.none THEN 0 ELSE opcode.value

\* message.encode() when the determined opcode is TEXT
encoded_message(message, determined) ==
    IF determined # TEXT THEN [raised |-> NoError, message |-> message]
    ELSE IF message.type = "bytes"
    THEN [raised |-> Raised("AttributeError"), message |-> message]
    ELSE [raised |-> NoError, message |-> Bytes(encode(message.value))]

\* frame.extend(message) in _prepare_frame
extended_by(message, extend_takes_str) ==
    IF message.type = "bytes" \/ message.value = <<>>
    THEN [raised |-> NoError, bytes |-> message.value]
    ELSE IF extend_takes_str THEN [raised |-> NoError, bytes |-> encode(message.value)]
    ELSE [raised |-> Raised("TypeError"), bytes |-> <<>>]

\* send_message from _prepare_frame on
send_message_framed(w, determined, extended, fail_silently, tx) ==
    IF extended.raised # NoError THEN Outcome(w, NoneResult, extended.raised, 0)
    ELSE send_message_done(send_message_open(w.conn, extended.bytes, determined,
                                             fail_silently, tx))

\* send_message from message.encode() on
send_message_encoded(w, determined, encoded, fail_silently, tx, extend_takes_str) ==
    IF encoded.raised # NoError THEN Outcome(w, NoneResult, encoded.raised, 0)
    ELSE send_message_framed(w, determined, extended_by(encoded.message, extend_takes_str),
                             fail_silently, tx)

\* Websocket.send_message(message, opcode, fail_silently)
Websocket_send_message_typed(w, message, opcode, fail_silently, tx, extend_takes_str) ==
    IF w.closed THEN closed_call(w, fail_silently)
    ELSE send_message_encoded(w, determined_opcode(message, opcode_or_zero(opcode)),
                              encoded_message(message,
                                              determined_opcode(message,
                                                                opcode_or_zero(opcode))),
                              fail_silently, tx, extend_takes_str)

-----------------------------------------------------------------------------
(***************************************************************************)
(* SpecSend: an open Websocket on which send_message is called with str    *)
(* and bytes messages, with no opcode and with each of the opcodes; the    *)
(* writes succeed. arg counts the calls, out is the last call, conn.wire   *)
(* the frames written.                                                     *)
(***************************************************************************)
MaxSends == 2   \* calls of send_message

SentMessages == {Str(<<104, 105>>), Bytes(<<1, 2>>), Str(<<>>), Bytes(<<>>)}

Opcodes == {CONT, TEXT, BINARY, CLOSE, PING, PONG}

InitSend ==
    /\ ServerInit
    /\ root_path = None
    /\ arg = [closed |-> FALSE, calls |-> 0]
    /\ out = Idle

\* The handshake response of the Websocket was sent
OpenWebsocket ==
    /\ ~conn.open
    /\ arg.calls = 0
    /\ conn' = [NoConn EXCEPT !.open = TRUE, !.kept = "Websocket", !.blocking = FALSE]
    /\ out' = [op |-> "handshake"]
    /\ UNCHANGED <<stopped, host, port, sock, auths, root_path, routes, last, arg>>

SendCalled(message, opcode, r) ==
    /\ arg' = [closed |-> r.closed, calls |-> arg.calls + 1]
    /\ conn' = r.conn
    /\ out' = [op |-> "send_message", message |-> message, opcode |-> opcode,
               raised |-> r.raised,
               wrote |-> SubSeq(r.conn.wire, Len(conn.wire) + 1, Len(r.conn.wire))]
    /\ UNCHANGED <<stopped, host, port, sock, auths, root_path, routes, last>>

\* send_message(message)
SendPlain ==
    /\ conn.open
    /\ arg.calls < MaxSends
    /\ \E message \in SentMessages, extend_takes_str \in BOOLEAN :
          SendCalled(message, NoneInt,
                     Websocket_send_message_typed([closed |-> arg.closed, conn |-> conn],
                                                  message, NoneInt, FALSE, NoError,
                                                  extend_takes_str))

\* send_message(message, opcode)
SendWithOpcode ==
    /\ conn.open
    /\ arg.calls < MaxSends
    /\ \E message \in SentMessages, opcode \in Opcodes, extend_takes_str \in BOOLEAN :
          SendCalled(message, SomeInt(opcode),
                     Websocket_send_message_typed([closed |-> arg.closed, conn |-> conn],
                                                  message, SomeInt(opcode), FALSE, NoError,
                                                  extend_takes_str))

NextSend ==
    \/ OpenWebsocket
    \/ SendPlain
    \/ SendWithOpcode

SpecSend == InitSend /\ [][NextSend]_vars

\* The opcode the frame is to carry
DescribedOpcode(message, opcode) ==
    IF ~opcode.none THEN opcode.value
    ELSE IF message.type = "str" THEN TEXT ELSE BINARY

\* The call wrote one frame of this opcode that carries the message
WroteOneFrame(call, opcode) ==
    /\ call.raised = NoError
    /\ Len(call.wrote) = 1
    /\ call.wrote[1][1] = FIN + opcode
    /\ SubSeq(call.wrote[1], 3, Len(call.wrote[1]))
          = IF call.message.type = "str" THEN encode(call.message.value)
            ELSE call.message.value

\* C30: send_message on an open Websocket writes one frame: a TEXT frame for
\* a str and a BINARY frame for bytes when no opcode is given, and a frame of
\* the given opcode when one is given, whichever of CONT, TEXT, BINARY,
\* CLOSE, PING and PONG it is and whether the message is a str or bytes.
C30_SendMessageOpcode ==
    out.op = "send_message" => WroteOneFrame(out, DescribedOpcode(out.message, out.opcode))

\* What of it holds: the calls without opcode, and those whose opcode is not
\* CONT and is TEXT for a str and another one for bytes
SendMessageDefaultsAndFitting ==
    (/\ out.op = "send_message"
     /\ \/ out.opcode.none
        \/ /\ out.opcode.value # CONT
           /\ (out.opcode.value = TEXT) <=> (out.message.type = "str"))
        => WroteOneFrame(out, DescribedOpcode(out.message, out.opcode))

\* A call with the opcode CONT writes the frame of a call without opcode
ContIsNoOpcode ==
    (out.op = "send_message" /\ ~out.opcode.none /\ out.opcode.value = CONT)
        => WroteOneFrame(out, IF out.message.type = "str" THEN TEXT ELSE BINARY)

\* A call with the opcode TEXT and bytes writes nothing and raises
TextOfBytesRaises ==
    (out.op = "send_message" /\ ~out.opcode.none /\ out.opcode.value = TEXT
     /\ out.message.type = "bytes")
        => (out.raised = Raised("AttributeError") /\ out.wrote = <<>>)

-----------------------------------------------------------------------------
(***************************************************************************)
(* SpecStream: a client sends frames on the connection of a Websocket and  *)
(* the bytes arrive at the socket a few at a time; the application calls   *)
(* receive() in between. arg is the stream: the frames the client sends,   *)
(* their bytes, how many of them have arrived at the socket and how many   *)
(* the Websocket has read, and the calls made. out is the last call.       *)
(***************************************************************************)
MaxFrames == 2       \* the client sends at most this many frames

\* The frames of a client: a whole message, the first fragment of a message, a
\* continuation fragment and the last fragment
ClientFrames ==
    { [fin |-> f, opcode |-> o, payload |-> <<104, 105>>] :
        f \in {0, FIN}, o \in {CONT, TEXT} }

FrameSeqs == UNION { [1..n -> ClientFrames] : n \in 1..MaxFrames }

\* The bytes of a frame as the client writes it: masked with the key 1 2 3 4
FrameBytes(f) ==
    ClientMasked(<<f.fin + f.opcode, Len(f.payload)>> \o f.payload, <<1, 2, 3, 4>>)

RECURSIVE StreamBytes(_)
StreamBytes(frames) ==
    IF frames = <<>> THEN <<>>
    ELSE FrameBytes(Head(frames)) \o StreamBytes(Tail(frames))

\* The offset in the stream at which frame i starts; that of frame Len + 1 is the
\* end of the stream
FrameStart(frames, i) == Len(StreamBytes(SubSeq(frames, 1, i - 1)))

FrameStarts(frames) == { FrameStart(frames, i) : i \in 1..(Len(frames) + 1) }

\* The bytes at the socket: arrived and not read yet
AtSocket(a) == SubSeq(a.bytes, a.consumed + 1, a.arrived)

InitStream ==
    /\ \E frames \in FrameSeqs :
          arg = [frames |-> frames, bytes |-> StreamBytes(frames), arrived |-> 0,
                 consumed |-> 0, calls |-> 0]
    /\ ServerInit
    /\ root_path = None
    /\ out = Idle

\* The handshake is done: the connection is open and does not block.
StreamOpen ==
    /\ ~conn.open
    /\ arg.calls = 0
    /\ conn' = [NoConn EXCEPT !.open = TRUE, !.kept = "Websocket", !.blocking = FALSE]
    /\ out' = [op |-> "handshake"]
    /\ UNCHANGED <<stopped, host, port, sock, auths, root_path, routes, last, arg>>

\* More bytes of the stream arrive at the socket.
Arrive ==
    /\ conn.open
    /\ \E n \in 1..(Len(arg.bytes) - arg.arrived) :
          arg' = [arg EXCEPT !.arrived = @ + n]
    /\ UNCHANGED <<serverVars, routes, out>>

\* The index of the frame that starts at this offset, 0 when none does
FrameAt(frames, offset) ==
    IF \E i \in 1..Len(frames) : FrameStart(frames, i) = offset
    THEN CHOOSE i \in 1..Len(frames) : FrameStart(frames, i) = offset
    ELSE 0

\* receive() was called with these bytes at the socket: r is its outcome and
\* frame what _read_frame read.
StreamReceived(at_socket, r, frame) ==
    /\ arg' = [arg EXCEPT !.consumed = arg.arrived - Len(frame.rest), !.calls = @ + 1]
    /\ conn' = r.conn
    /\ out' = [op |-> "receive", from |-> arg.consumed,
               at |-> FrameAt(arg.frames, arg.consumed),
               had |-> Len(at_socket), result |-> r.result, raised |-> r.raised]
    /\ UNCHANGED <<stopped, host, port, sock, auths, root_path, routes, last>>

StreamReceive ==
    /\ conn.open
    /\ arg.calls <= MaxFrames
    /\ StreamReceived(AtSocket(arg),
                      Websocket_receive([closed |-> FALSE, conn |-> conn], FALSE,
                                        [NoRx EXCEPT !.stream = AtSocket(arg)],
                                        DefaultBufferSize, NoError),
                      read_frame(AtSocket(arg), DefaultBufferSize))

NextStream == StreamOpen \/ Arrive \/ StreamReceive

SpecStream == InitStream /\ [][NextStream]_vars

\* The frame the last receive() started at was at the socket in full.
WholeFrameAtSocket ==
    /\ out.op = "receive"
    /\ out.at # 0
    /\ out.had >= Len(FrameBytes(arg.frames[out.at]))

\* C31: receive() reads whole frames only, however the bytes are split: with no
\* data at the start of a frame it returns None and has read nothing, and after
\* every receive() the next read starts at the header of a frame, so that a frame
\* of which only a part was at the socket is not lost.
C31_WholeFramesOnly ==
    out.op = "receive" =>
        /\ arg.consumed \in FrameStarts(arg.frames)
        /\ out.raised = NoError
        /\ out.had = 0 => (out.result = NoneResult /\ arg.consumed = out.from)

\* With no data at the socket receive() returns None and reads nothing.
NoDataNothingRead ==
    (out.op = "receive" /\ out.had = 0) =>
        (out.result = NoneResult /\ out.raised = NoError /\ arg.consumed = out.from)

\* A whole message that is at the socket in full when receive() starts at its
\* header is returned, and the next read starts at the following frame.
WholeMessageDelivered ==
    (WholeFrameAtSocket /\ arg.frames[out.at].fin = FIN
     /\ arg.frames[out.at].opcode = TEXT)
        => /\ out.result = Str(arg.frames[out.at].payload)
           /\ out.raised = NoError
           /\ arg.consumed = FrameStart(arg.frames, out.at + 1)

\* The frame the last receive() started at, which was at the socket in full
FrameReceived == arg.frames[out.at]

\* C34: a fragment of a message is never returned as a message: for a frame with
\* FIN = 0 and for every continuation frame receive() returns None, and it has
\* read the whole frame, so that the next receive() starts at the header of the
\* following frame.
C34_FragmentsSkipped ==
    (WholeFrameAtSocket /\ (FrameReceived.fin = 0 \/ FrameReceived.opcode = CONT))
        => /\ out.result = NoneResult
           /\ out.raised = NoError
           /\ arg.consumed = FrameStart(arg.frames, out.at + 1)

\* For every continuation frame receive() returns None.
ContinuationGivesNone ==
    (WholeFrameAtSocket /\ FrameReceived.opcode = CONT)
        => (out.result = NoneResult /\ out.raised = NoError)

\* The last fragment of a message (FIN = 1, opcode CONT) is read in full.
LastFragmentRead ==
    (WholeFrameAtSocket /\ FrameReceived.fin = FIN /\ FrameReceived.opcode = CONT)
        => arg.consumed = FrameStart(arg.frames, out.at + 1)

\* The first fragment of a message (FIN = 0, opcode TEXT) is returned as a message.
FirstFragmentReturned ==
    (WholeFrameAtSocket /\ FrameReceived.fin = 0 /\ FrameReceived.opcode = TEXT)
        => out.result = Str(FrameReceived.payload)

\* Of a continuation fragment (FIN = 0, opcode CONT) the header alone is read.
ContinuationHeaderRead ==
    (WholeFrameAtSocket /\ FrameReceived.fin = 0 /\ FrameReceived.opcode = CONT)
        => arg.consumed = out.from + 2

-----------------------------------------------------------------------------
(***************************************************************************)
(* server.py: the loops of _receive_header_bytes and _receive_body_bytes,  *)
(* one recv_into at a time. rcv is what the recv_into of the iteration     *)
(* did: the error it raised, or the bytes it read, none at all when the    *)
(* client has closed its side of the connection.                           *)
(***************************************************************************)
NoRecv == [raised |-> NoError, bytes |-> <<>>]

\* One iteration of the loop of _receive_header_bytes and the test of the next
receive_header_iteration(received_bytes, rcv) ==
    IF IsTimeout(rcv.raised) THEN [pc |-> "returned", bytes |-> received_bytes]
    ELSE IF rcv.raised # NoError THEN [pc |-> "raised", bytes |-> received_bytes]
    ELSE IF Contains(received_bytes \o rcv.bytes, EmptyLine)
    THEN [pc |-> "returned", bytes |-> received_bytes \o rcv.bytes]
    ELSE [pc |-> "loop", bytes |-> received_bytes \o rcv.bytes]

\* One iteration of the loop of _receive_body_bytes and the test of the next
receive_body_iteration(received_body_bytes, content_length, rcv) ==
    IF IsTimeout(rcv.raised) THEN [pc |-> "returned", bytes |-> received_body_bytes]
    ELSE IF rcv.raised # NoError THEN [pc |-> "raised", bytes |-> received_body_bytes]
    ELSE IF Len(received_body_bytes \o rcv.bytes) < content_length
    THEN [pc |-> "loop", bytes |-> received_body_bytes \o rcv.bytes]
    ELSE [pc |-> "returned", bytes |-> received_body_bytes \o rcv.bytes]

\* The test of the loop of _receive_body_bytes when it is entered
receive_body_entered(received_body_bytes, content_length) ==
    IF Len(received_body_bytes) < content_length THEN "loop" ELSE "returned"

-----------------------------------------------------------------------------
(***************************************************************************)
(* SpecLoop: the server receives a request from a client that sends some   *)
(* pieces, stays silent until the socket times out, or closes its side.    *)
(* arg is the read: the loop it is in and whether it goes on, the bytes    *)
(* received, the Content-Length, the pieces the client may still send and  *)
(* whether it has closed. out is the last recv_into, odd or even in its    *)
(* row of calls.                                                           *)
(***************************************************************************)
MaxSentPieces == 3   \* the client sends at most this many pieces

SentPieces == {<<"a">>, CRLF, EmptyLine \o <<"b">>}

ContentLengths == {0, 1, 2}

InitLoop ==
    /\ arg \in [loop : {"none"}, pc : {"idle"}, received : {<<>>},
                content_length : ContentLengths, left : {MaxSentPieces}, closed : {FALSE}]
    /\ ServerInit
    /\ root_path = None
    /\ out = Idle

\* What a recv_into may do now: read a piece the client has sent, time out
\* while the client is silent, fail, or read no bytes once the client has closed.
RecvOutcomes ==
    IF arg.closed THEN {NoRecv}
    ELSE { [NoRecv EXCEPT !.bytes = p] : p \in IF arg.left > 0 THEN SentPieces ELSE {} }
            \cup { [NoRecv EXCEPT !.raised = e] : e \in {OSError(ETIMEDOUT), OSError(ECONNRESET)} }

\* Whether this recv_into is an odd one of the calls made in a row
OddCall == IF out.op = "recv_into" THEN ~out.odd ELSE TRUE

Recv(rcv, it) ==
    /\ arg' = [arg EXCEPT !.pc = it.pc, !.received = it.bytes,
                          !.left = IF rcv.bytes # <<>> THEN @ - 1 ELSE @]
    /\ out' = [op |-> "recv_into", raised |-> rcv.raised, length |-> Len(rcv.bytes),
               odd |-> OddCall]
    /\ UNCHANGED <<serverVars, routes>>

\* _receive_header_bytes is called.
CallReceiveHeader ==
    /\ arg.pc = "idle"
    /\ arg' = [arg EXCEPT !.loop = "header", !.pc = "loop"]
    /\ out' = [op |-> "_receive_header_bytes"]
    /\ UNCHANGED <<serverVars, routes>>

HeaderIteration ==
    /\ arg.loop = "header"
    /\ arg.pc = "loop"
    /\ \E rcv \in RecvOutcomes : Recv(rcv, receive_header_iteration(arg.received, rcv))

\* _receive_body_bytes is called with the bytes that followed the empty line.
CallReceiveBody ==
    /\ arg.loop = "header"
    /\ arg.pc = "returned"
    /\ Contains(arg.received, EmptyLine)
    /\ arg' = [arg EXCEPT !.loop = "body",
                          !.received = SliceFrom(@, find(@, EmptyLine) + 4),
                          !.pc = receive_body_entered(
                                     SliceFrom(arg.received, find(arg.received, EmptyLine) + 4),
                                     arg.content_length)]
    /\ out' = [op |-> "_receive_body_bytes"]
    /\ UNCHANGED <<serverVars, routes>>

BodyIteration ==
    /\ arg.loop = "body"
    /\ arg.pc = "loop"
    /\ \E rcv \in RecvOutcomes :
          Recv(rcv, receive_body_iteration(arg.received, arg.content_length, rcv))

\* The client closes its side of the connection.
ClientCloses ==
    /\ arg.pc \in {"idle", "loop"}
    /\ ~arg.closed
    /\ arg' = [arg EXCEPT !.closed = TRUE]
    /\ UNCHANGED <<serverVars, routes, out>>

NextLoop ==
    CallReceiveHeader \/ HeaderIteration \/ CallReceiveBody \/ BodyIteration \/ ClientCloses

SpecLoop == InitLoop /\ [][NextLoop]_vars

\* The loops go on: an iteration that can be made is made.
SpecLoopLive == SpecLoop /\ WF_vars(HeaderIteration) /\ WF_vars(BodyIteration)

InLoop(loop) == arg.loop = loop /\ arg.pc = "loop"

\* C32: receiving a request terminates whatever the client does, a client that
\* closes its side (recv_into reads 0 bytes) included: the read of the header
\* ends and the read of the body ends.
C32_ReceivingTerminates ==
    /\ InLoop("header") ~> ~InLoop("header")
    /\ InLoop("body") ~> ~InLoop("body")

\* While the client has not closed its side both reads end.
ReceivingFromOpenEnds ==
    /\ (InLoop("header") /\ ~arg.closed) ~> (~InLoop("header") \/ arg.closed)
    /\ (InLoop("body") /\ ~arg.closed) ~> (~InLoop("body") \/ arg.closed)

\* The read of the header does not go on once the empty line is received, and
\* the read of the body not once Content-Length bytes are.
ReadsEndWhenComplete ==
    /\ InLoop("header") => ~Contains(arg.received, EmptyLine)
    /\ InLoop("body") => Len(arg.received) < arg.content_length

\* Once the client has closed its side, the loop it is in is never left.
ClosedNeverEnds ==
    [][(arg.closed /\ arg.pc = "loop") => (arg.pc' = "loop" /\ arg.received' = arg.received)]_vars

-----------------------------------------------------------------------------
(***************************************************************************)
(* response.py: Websocket.receive(), one recv_into of the payload loop of  *)
(* _read_frame at a time. The socket is the bytes that have arrived and    *)
(* whether the client has closed its side: a recv_into on a closed side    *)
(* with nothing left to read reads 0 bytes and raises nothing.             *)
(***************************************************************************)
recv_from(socket, nbytes, buffer_size) ==
    IF nbytes <= buffer_size /\ socket.bytes = <<>> /\ socket.closed
    THEN NotRead(<<>>)
    ELSE recv_into(socket.bytes, buffer_size, nbytes)

After(socket, r) == [socket EXCEPT !.bytes = r.rest]

\* The locals of _read_frame and where it is: in the payload loop, past it
\* ("read"), returned early with an opcode, or left by an exception
FrameLocals ==
    [pc |-> "raised", raised |-> NoError, opcode |-> CONT, has_mask |-> 0, length |-> 0,
     mask |-> <<>>, payload |-> <<>>, rest |-> <<>>]

ReadRaised(raised, rest) == [FrameLocals EXCEPT !.raised = raised, !.rest = rest]

\* _read_frame from the test of the payload loop on
read_frame_loop_test(f) == [f EXCEPT !.pc = IF 0 < f.length THEN "loop" ELSE "read"]

\* _read_frame from the read of the mask on
read_frame_masked(h, length, m) ==
    IF m.raised # NoError THEN ReadRaised(m.raised, m.rest)
    ELSE read_frame_loop_test([FrameLocals EXCEPT !.opcode = h.opcode,
                                                  !.has_mask = h.has_mask,
                                                  !.length = length,
                                                  !.mask = m.bytes,
                                                  !.rest = m.rest])

\* _read_frame from the read of the extended length on
read_frame_extended(h, l, closed, buffer_size) ==
    IF l.raised # NoError THEN ReadRaised(l.raised, l.rest)
    ELSE read_frame_masked(h,
                           IF h.length < 0 THEN from_bytes(l.bytes) ELSE h.length,
                           IF h.has_mask # 0
                           THEN recv_from([bytes |-> l.rest, closed |-> closed], 4, buffer_size)
                           ELSE NotRead(l.rest))

\* _read_frame from the parsed header on
read_frame_early(h, rest, closed, buffer_size) ==
    IF h.fin # FIN /\ h.opcode = CONT
    THEN [FrameLocals EXCEPT !.pc = "early", !.opcode = CONT, !.rest = rest]
    ELSE IF h.fin = FIN /\ h.opcode = CLOSE
    THEN [FrameLocals EXCEPT !.pc = "early", !.opcode = CLOSE, !.rest = rest]
    ELSE read_frame_extended(h,
                             IF h.length < 0
                             THEN recv_from([bytes |-> rest, closed |-> closed], -h.length,
                                            buffer_size)
                             ELSE NotRead(rest),
                             closed, buffer_size)

\* _read_frame up to the payload loop
read_frame_entered(r, closed, buffer_size) ==
    IF r.raised # NoError THEN ReadRaised(r.raised, r.rest)
    ELSE IF Len(r.bytes) < 2 THEN ReadRaised(Raised("IndexError"), r.rest)
    ELSE read_frame_early(parse_frame_header(r.bytes), r.rest, closed, buffer_size)

read_frame_until_payload(socket, buffer_size) ==
    read_frame_entered(recv_from(socket, 2, buffer_size), socket.closed, buffer_size)

\* One iteration of the payload loop of _read_frame and the test of the next
read_frame_iteration(f, r) ==
    IF r.raised # NoError THEN [f EXCEPT !.pc = "raised", !.raised = r.raised, !.rest = r.rest]
    ELSE read_frame_loop_test([f EXCEPT !.payload = @ \o r.bytes,
                                        !.length = @ - Min(Len(r.bytes), f.length),
                                        !.rest = r.rest])

\* The payload with the mask taken off, past the loop
unmasked(f) ==
    IF f.has_mask = 0 THEN [raised |-> NoError, opcode |-> f.opcode, payload |-> f.payload]
    ELSE IF f.payload # <<>> /\ Len(f.mask) < Min(4, Len(f.payload))
    THEN [raised |-> Raised("IndexError"), opcode |-> f.opcode, payload |-> <<>>]
    ELSE [raised |-> NoError, opcode |-> f.opcode,
          payload |-> [i \in 1..Len(f.payload) |->
                          BitXor(f.payload[i], f.mask[((i - 1) % 4) + 1])]]

\* receive() from the return of _read_frame on: f is where _read_frame is
receive_after_read(w, f, tx) ==
    IF f.pc = "raised"
    THEN receive_except(Outcome(w, NoneResult, f.raised, 0), tx)
    ELSE IF f.pc = "early"
    THEN receive_except(handle_frame(w, f.opcode, <<>>, tx), tx)
    ELSE receive_except(receive_try(w, NoRx, unmasked(f), tx), tx)

-----------------------------------------------------------------------------
(***************************************************************************)
(* SpecFrameLoop: a client sends the first bytes of a frame and then stays *)
(* silent or closes its side; the application calls receive(). arg is the  *)
(* call: the socket, where receive() is and the locals of _read_frame. out *)
(* is the last step.                                                       *)
(***************************************************************************)
\* The frames of the model: a masked TEXT frame, a masked BINARY frame with a
\* 2-byte length, an unmasked BINARY frame and a PING
LoopFrames ==
    { ClientMasked(prepare_frame(TEXT, <<104, 105>>), <<1, 2, 3, 4>>),
      <<130, 254, 0, 3, 1, 2, 3, 4, 9, 9, 9>>,
      <<130, 2, 7, 8>>,
      ClientMasked(prepare_frame(PING, <<1>>), <<1, 2, 3, 4>>) }

InitFrameLoop ==
    /\ \E frame \in LoopFrames, cut \in 0..11, closed \in BOOLEAN :
          arg = [socket |-> [bytes |-> SliceTo(frame, cut), closed |-> closed],
                 pc |-> "idle", frame |-> FrameLocals, result |-> NoneResult,
                 raised |-> NoError]
    /\ ServerInit
    /\ root_path = None
    /\ out = Idle

FrameLoopOpen ==
    /\ ~conn.open
    /\ arg.pc = "idle"
    /\ conn' = [NoConn EXCEPT !.open = TRUE, !.kept = "Websocket", !.blocking = FALSE]
    /\ out' = [op |-> "handshake"]
    /\ UNCHANGED <<stopped, host, port, sock, auths, root_path, routes, last, arg>>

\* receive() is where f says: in the payload loop, or done with the outcome r.
Receiving(f, r, step) ==
    /\ arg' = [arg EXCEPT !.socket.bytes = f.rest,
                          !.pc = IF f.pc = "loop" THEN "loop"
                                 ELSE IF r.raised # NoError THEN "raised" ELSE "returned",
                          !.frame = f,
                          !.result = IF f.pc = "loop" THEN NoneResult ELSE r.result,
                          !.raised = IF f.pc = "loop" THEN NoError ELSE r.raised]
    /\ conn' = IF f.pc = "loop" THEN conn ELSE r.conn
    /\ out' = step
    /\ UNCHANGED <<stopped, host, port, sock, auths, root_path, routes, last>>

ReceiveFrom(f, step) ==
    Receiving(f, receive_after_read([closed |-> FALSE, conn |-> conn], f, NoError), step)

\* receive() is called on the open Websocket and runs up to the payload loop.
CallReceive ==
    /\ conn.open
    /\ arg.pc = "idle"
    /\ ReceiveFrom(read_frame_until_payload(arg.socket, DefaultBufferSize),
                   [op |-> "receive"])

\* One recv_into of the payload loop
PayloadRecv(r) ==
    ReceiveFrom(read_frame_iteration(arg.frame, r),
                [op |-> "recv_into", raised |-> r.raised, length |-> Len(r.bytes),
                 odd |-> OddCall])

PayloadIteration ==
    /\ arg.pc = "loop"
    /\ PayloadRecv(recv_from(arg.socket, arg.frame.length, DefaultBufferSize))

\* The client closes its side of the connection.
PeerCloses ==
    /\ conn.open
    /\ arg.pc \in {"idle", "loop"}
    /\ ~arg.socket.closed
    /\ arg' = [arg EXCEPT !.socket.closed = TRUE]
    /\ UNCHANGED <<serverVars, routes, out>>

NextFrameLoop == FrameLoopOpen \/ CallReceive \/ PayloadIteration \/ PeerCloses

SpecFrameLoop == InitFrameLoop /\ [][NextFrameLoop]_vars

\* The loop goes on: an iteration that can be made is made.
SpecFrameLoopLive == SpecFrameLoop /\ WF_vars(PayloadIteration)

\* C33: every call of receive() terminates, it returns or raises, also when the
\* client closes the connection in the middle of a frame and recv_into reads 0
\* bytes while bytes of the payload are still expected.
C33_ReceiveTerminates == (arg.pc = "loop") ~> (arg.pc # "loop")

\* While the client has not closed its side, receive() terminates.
ReceiveFromOpenEnds ==
    (arg.pc = "loop" /\ ~arg.socket.closed) ~> (arg.pc # "loop" \/ arg.socket.closed)

\* A receive() that is in the payload loop when the client has closed and nothing
\* is left to read stays there.
ClosedMidFrameNeverEnds ==
    [][(arg.pc = "loop" /\ arg.socket.closed /\ arg.socket.bytes = <<>>)
          => arg.pc' = "loop"]_vars

\* A frame that has arrived in full is returned by receive().
WholeFrameReturned ==
    (arg.pc = "returned" /\ arg.socket.bytes = <<>> /\ arg.frame.pc = "read"
     /\ arg.frame.opcode = TEXT)
        => arg.result = Str(<<104, 105>>)

-----------------------------------------------------------------------------
(***************************************************************************)
(* response.py: Response._send_bytes, one conn.send at a time. answer is   *)
(* what the conn.send of the iteration did with the bytes it was offered:  *)
(* the error it raised, or the number n of them it accepted.               *)
(***************************************************************************)
\* One iteration of the loop of _send_bytes, were the view sent from its start
\* each time.
send_bytes_iteration_from_start(buffer, bytes_sent, answer) ==
    IF answer.raised = NoError
    THEN [pc |-> IF bytes_sent + answer.n < Len(buffer) THEN "loop" ELSE "returned",
          bytes_sent |-> bytes_sent + answer.n,
          accepted |-> SliceTo(buffer, answer.n),
          raised |-> NoError]
    ELSE IF IsOSError(answer.raised) /\ answer.raised.errno = EAGAIN
    THEN [pc |-> "loop", bytes_sent |-> bytes_sent, accepted |-> <<>>, raised |-> NoError]
    ELSE IF IsOSError(answer.raised) /\ answer.raised.errno = ECONNRESET
    THEN [pc |-> "returned", bytes_sent |-> bytes_sent, accepted |-> <<>>, raised |-> NoError]
    ELSE [pc |-> "raised", bytes_sent |-> bytes_sent, accepted |-> <<>>,
          raised |-> answer.raised]

\* One iteration of the loop of _send_bytes and the test of the next
send_bytes_iteration(buffer, bytes_sent, answer) ==
    IF answer.raised = NoError
    THEN [pc |-> IF bytes_sent + answer.n < Len(buffer) THEN "loop" ELSE "returned",
          bytes_sent |-> bytes_sent + answer.n,
          accepted |-> SliceTo(SliceFrom(buffer, bytes_sent), answer.n),
          raised |-> NoError]
    ELSE IF IsOSError(answer.raised) /\ answer.raised.errno = EAGAIN
    THEN [pc |-> "loop", bytes_sent |-> bytes_sent, accepted |-> <<>>, raised |-> NoError]
    ELSE IF IsOSError(answer.raised) /\ answer.raised.errno = ECONNRESET
    THEN [pc |-> "returned", bytes_sent |-> bytes_sent, accepted |-> <<>>, raised |-> NoError]
    ELSE [pc |-> "raised", bytes_sent |-> bytes_sent, accepted |-> <<>>,
          raised |-> answer.raised]

\* The test of the loop of _send_bytes when it is entered
send_bytes_entered(buffer) == IF 0 < Len(buffer) THEN "loop" ELSE "returned"

-----------------------------------------------------------------------------
(***************************************************************************)
(* SpecSendBytes: _send_bytes is called with a buffer on a socket that     *)
(* accepts a part of what it is offered, or answers with an error. arg is  *)
(* the call: the buffer, where the call is, bytes_sent, the bytes the      *)
(* socket has accepted, in the order of the calls, the number of conn.send *)
(* calls and the kinds of answers met. out is the last conn.send.          *)
(***************************************************************************)
MaxSendCalls == 4    \* conn.send is called at most this many times

SendBuffers == {<<>>, <<1>>, <<1, 2>>, <<1, 2, 3>>}

SendErrors == {OSError(EAGAIN), OSError(ECONNRESET), OSError(ENOTCONN), BrokenPipeError}

InitSendBytes ==
    /\ arg \in [buffer : SendBuffers, pc : {"idle"}, bytes_sent : {0}, accepted : {<<>>},
                sends : {0}, met : {{}}, raised : {NoError}]
    /\ ServerInit
    /\ root_path = None
    /\ out = Idle

\* _send_bytes(conn, buffer) is called.
CallSendBytes ==
    /\ arg.pc = "idle"
    /\ arg' = [arg EXCEPT !.pc = send_bytes_entered(arg.buffer)]
    /\ out' = [op |-> "_send_bytes"]
    /\ UNCHANGED <<serverVars, routes>>

\* What the socket may answer when it is offered this many bytes
SendAnswers(offered) ==
    { [raised |-> NoError, n |-> n] : n \in 1..offered }
        \cup { [raised |-> e, n |-> 0] : e \in SendErrors }

AnswerKind(answer) ==
    IF answer.raised = NoError THEN "accepted"
    ELSE IF answer.raised.errno = EAGAIN THEN "EAGAIN"
    ELSE IF answer.raised.errno = ECONNRESET THEN "ECONNRESET"
    ELSE "error"

SendAnswered(answer, it) ==
    /\ arg' = [arg EXCEPT !.pc = it.pc, !.bytes_sent = it.bytes_sent,
                          !.accepted = @ \o it.accepted, !.sends = @ + 1,
                          !.met = @ \cup {AnswerKind(answer)}, !.raised = it.raised]
    /\ out' = [op |-> "send", answer |-> AnswerKind(answer), raised |-> answer.raised,
               offered |-> Len(arg.buffer) - arg.bytes_sent]
    /\ UNCHANGED <<serverVars, routes>>

SendIteration ==
    /\ arg.pc = "loop"
    /\ arg.sends < MaxSendCalls
    /\ \E answer \in SendAnswers(Len(arg.buffer) - arg.bytes_sent) :
          SendAnswered(answer, send_bytes_iteration(arg.buffer, arg.bytes_sent, answer))

NextSendBytes == CallSendBytes \/ SendIteration

SpecSendBytes == InitSendBytes /\ [][NextSendBytes]_vars

\* What the last conn.send led to
AfterSend ==
    out.op = "send" =>
        CASE out.answer = "EAGAIN" -> arg.pc = "loop"
          [] out.answer = "ECONNRESET" -> arg.pc = "returned" /\ arg.raised = NoError
          [] out.answer = "error" -> arg.pc = "raised" /\ arg.raised = out.raised
          [] OTHER -> arg.raised = NoError

\* C35: _send_bytes delivers the buffer in order, without loss or duplication:
\* the bytes the socket has accepted, in the order of the calls, are a prefix of
\* the buffer, and the whole buffer when the call returns without an ECONNRESET;
\* EAGAIN is tried again, ECONNRESET ends the call silently and any other error
\* is raised, and after either no further send is made.
C35_SendBytesInOrder ==
    /\ [](/\ arg.accepted = SliceTo(arg.buffer, Len(arg.accepted))
          /\ (arg.pc = "returned" /\ "ECONNRESET" \notin arg.met)
                => arg.accepted = arg.buffer
          /\ AfterSend)
    /\ [][arg.pc \in {"returned", "raised"} => arg.sends' = arg.sends]_vars

\* The call returned having sent the buffer in parts, an EAGAIN in between.
C35_Witness ==
    /\ arg.pc = "returned"
    /\ arg.buffer = <<1, 2, 3>>
    /\ arg.accepted = arg.buffer
    /\ arg.sends = MaxSendCalls
    /\ arg.met = {"accepted", "EAGAIN"}

-----------------------------------------------------------------------------
(***************************************************************************)
(* SpecWrite: the frames a Websocket writes: those of send_message, the    *)
(* PONG that answers a PING and the CLOSE frame of close(). arg counts the *)
(* writes; out is the last one: the message, and of the frame written its  *)
(* bytes before the payload, its length and whether it ends with the       *)
(* message.                                                                *)
(***************************************************************************)
MaxWrites == 3       \* frames written on the Websocket

WriteLengths == {0, 1, 2, 124, 125, 126, 127, 255, 256, 65535, 65536}

ControlLengths == {0, 1, 2, 125, 126}

TextLengths == {0, 1, 2, 20}

\* A str of this length (of ASCII characters) and bytes of this length
TextOf(length) == Str([i \in 1..length |-> (7 * i) % 128])

BytesOf(length, fill) == Bytes(PayloadOf([length |-> length, fill |-> fill]))

WrittenMessages ==
    { BytesOf(l, f) : l \in WriteLengths, f \in {0, 200} }
        \cup { TextOf(l) : l \in TextLengths }

InitWrite ==
    /\ arg = [writes |-> 0]
    /\ ServerInit
    /\ root_path = None
    /\ out = Idle

WriteOpen ==
    /\ ~conn.open
    /\ arg.writes = 0
    /\ conn' = [NoConn EXCEPT !.open = TRUE, !.kept = "Websocket", !.blocking = FALSE]
    /\ out' = [op |-> "handshake"]
    /\ UNCHANGED <<stopped, host, port, sock, auths, root_path, routes, last, arg>>

\* The call wrote the buffers wrote; payload is what the frame has to carry.
Wrote(op, opcode, payload, r, wrote) ==
    /\ arg' = [arg EXCEPT !.writes = @ + 1]
    /\ conn' = [r.conn EXCEPT !.wire = conn.wire]
    /\ out' = [op |-> op, opcode |-> opcode, length |-> Len(payload),
               first |-> IF payload = <<>> THEN -1 ELSE payload[1],
               frames |-> Len(wrote),
               head |-> IF wrote = <<>> THEN <<>>
                        ELSE SliceTo(wrote[1], Len(wrote[1]) - Len(payload)),
               total |-> IF wrote = <<>> THEN 0 ELSE Len(wrote[1]),
               carried |-> wrote # <<>>
                           /\ SliceFrom(wrote[1], Len(wrote[1]) - Len(payload)) = payload]
    /\ UNCHANGED <<stopped, host, port, sock, auths, root_path, routes, last>>

WroteBy(op, opcode, payload, r) ==
    Wrote(op, opcode, payload, r, SubSeq(r.conn.wire, Len(conn.wire) + 1, Len(r.conn.wire)))

CanWrite == conn.open /\ arg.writes < MaxWrites

\* send_message(message) with the default opcode
WriteMessage ==
    /\ CanWrite
    /\ \E message \in WrittenMessages :
          WroteBy("send_message", determined_opcode(message, 0), message_bytes(message, 0),
                  Websocket_send_message([closed |-> FALSE, conn |-> conn], message, 0,
                                         FALSE, NoError))

\* _handle_frame of a PING: the PONG with its payload
WritePong ==
    /\ CanWrite
    /\ \E l \in ControlLengths, f \in {0, 200} :
          WroteBy("pong", PONG, BytesOf(l, f).value,
                  handle_frame([closed |-> FALSE, conn |-> conn], PING, BytesOf(l, f).value,
                               NoError))

\* close(): the CLOSE frame
WriteClose ==
    /\ CanWrite
    /\ WroteBy("close", CLOSE, <<>>,
               Websocket_close([closed |-> FALSE, conn |-> conn], NoError))

NextWrite == WriteOpen \/ WriteMessage \/ WritePong \/ WriteClose

SpecWrite == InitWrite /\ [][NextWrite]_vars

\* The bytes that encode the payload length n after the first byte of a frame
DescribedLength(n) ==
    IF n < 126 THEN <<n>>
    ELSE IF n <= 65535 THEN <<126, n \div 256, n % 256>>
    ELSE <<127, 0, 0, 0, 0, (n \div 16777216) % 256, (n \div 65536) % 256,
           (n \div 256) % 256, n % 256>>

\* C36: every frame the server writes, by send_message, as the PONG for a PING
\* and as the CLOSE frame of close(), has the FIN bit set and the mask bit clear
\* with no mask key, and its payload length in the second byte alone below 126,
\* as 126 and 2 big-endian bytes up to 65535 and as 127 and 8 big-endian bytes
\* above; the payload follows.
C36_WrittenFrames ==
    out.op \in {"send_message", "pong", "close"} =>
        /\ out.frames = 1
        /\ out.head = <<FIN + out.opcode>> \o DescribedLength(out.length)
        /\ out.head[1] >= FIN
        /\ out.head[2] < 128
        /\ out.carried
        /\ out.total = Len(out.head) + out.length

\* A message of 126 bytes and one of 65536 bytes were written.
C36_Witness ==
    /\ out.op = "send_message"
    /\ out.length = 65536
    /\ out.head[2] = 127
    /\ arg.writes = MaxWrites

-----------------------------------------------------------------------------
(***************************************************************************)
(* request.py: Request.__init__ with all that it sets: the method, the     *)
(* path, the query parameters, the HTTP version and the headers.           *)
(***************************************************************************)
\* QueryParams.__init__(query_string): the parameters, key by key
RECURSIVE query_params_of(_, _)
query_params_of(params, storage) ==
    IF params = <<>> THEN storage
    ELSE IF Contains(Head(params), <<"=">>)
    THEN query_params_of(Tail(params),
                         add_field_value(storage, SplitOnce(Head(params), <<"=">>)[1],
                                         SplitOnce(Head(params), <<"=">>)[2]))
    ELSE IF Head(params) # <<>>
    THEN query_params_of(Tail(params), add_field_value(storage, Head(params), <<>>))
    ELSE query_params_of(Tail(params), storage)

QueryParams_init(query_string) == query_params_of(SplitBy(query_string, <<"&">>), <<>>)

\* Headers.__init__(headers: str) on the storage of the class
RECURSIVE header_lines_added(_, _)
header_lines_added(lines, storage) ==
    IF lines = <<>> THEN storage
    ELSE header_lines_added(Tail(lines),
                            Headers_add(storage, SplitOnce(Head(lines), <<":", " ">>)[1],
                                        SplitOnce(Head(lines), <<":", " ">>)[2]))

NotDecoded ==
    [raised |-> NoError, carried |-> <<>>, method |-> <<>>, path |-> <<>>,
     query_params |-> <<>>, http_version |-> <<>>, headers |-> <<>>]

\* Request.__init__: whatever the parse raises becomes a ValueError with the raw
\* request
Unparseable(raw_request) ==
    [NotDecoded EXCEPT !.raised = Raised("ValueError"), !.carried = raw_request]

\* _parse_request_header once the start line is split in words
decoded_start_line(raw_request, words, lines) ==
    IF Len(words) # 3 THEN Unparseable(raw_request)
    ELSE IF \E i \in DOMAIN lines : Len(SplitOnce(lines[i], <<":", " ">>)) # 2
    THEN Unparseable(raw_request)
    ELSE [NotDecoded EXCEPT
            !.method = words[1],
            !.path = SplitOnce(words[2] \o (IF Contains(words[2], <<"?">>) THEN <<>>
                                            ELSE <<"?">>), <<"?">>)[1],
            !.query_params =
                QueryParams_init(SplitOnce(words[2] \o (IF Contains(words[2], <<"?">>)
                                                        THEN <<>> ELSE <<"?">>), <<"?">>)[2]),
            !.http_version = words[3],
            !.headers = header_lines_added(lines, <<>>)]

\* _parse_request_header once the header bytes are split at the first "\r\n":
\* without one there are not two parts to unpack
decoded_parts(raw_request, parts) ==
    IF Len(parts) # 2 THEN Unparseable(raw_request)
    ELSE decoded_start_line(raw_request, SplitWords(Strip(parts[1], Whitespace)),
                            SplitLines(Strip(parts[2], Whitespace)))

\* Request.__init__(server, connection, client_address, raw_request)
Request_init(raw_request) ==
    decoded_parts(raw_request,
                  SplitOnce(Strip(raw_header_bytes(raw_request), Whitespace), CRLF))

-----------------------------------------------------------------------------
(***************************************************************************)
(* SpecDecode: a Request is built from the bytes of a header block, the    *)
(* empty line and a body. arg is the block: the tokens of its start line   *)
(* and its header lines. out is the Request, or what its making raised.    *)
(***************************************************************************)
MaxTokens == 4       \* the start line has at most this many tokens

MaxHeaderLines == 2  \* the header block has at most this many header lines

StartTokens == {<<"G">>, <<"/", "a", "?", "q", "=", "1", "&", "r">>}

HeaderLines == {<<"N", ":", " ", "v">>, <<"n", ":", " ", "w", ":", " ", "x">>, <<"N", ":", "v">>}

Blocks ==
    [tokens : UNION { [1..n -> StartTokens] : n \in 2..MaxTokens },
     lines : UNION { [1..n -> HeaderLines] : n \in 0..MaxHeaderLines }]

RECURSIVE JoinWith(_, _)
JoinWith(ss, sep) ==
    IF ss = <<>> THEN <<>>
    ELSE IF Len(ss) = 1 THEN ss[1]
    ELSE Head(ss) \o sep \o JoinWith(Tail(ss), sep)

\* The bytes of the block on the wire, the empty line and a body after it
RawOf(block) ==
    JoinWith(<<JoinWith(block.tokens, <<" ">>)>> \o block.lines, CRLF) \o EmptyLine \o <<"b">>

InitDecode ==
    /\ arg \in Blocks
    /\ ServerInit
    /\ root_path = None
    /\ out = Idle

Decode ==
    /\ out.op = "idle"
    /\ out' = [op |-> "Request", raw |-> RawOf(arg), request |-> Request_init(RawOf(arg))]
    /\ UNCHANGED <<serverVars, routes, arg>>

\* The Request is asked for what it holds.
ReadDecoded ==
    /\ out.op = "Request"
    /\ out.request.raised = NoError
    /\ out' = [out EXCEPT !.op = "read"]
    /\ UNCHANGED <<serverVars, routes, arg>>

NextDecode == Decode \/ ReadDecoded

SpecDecode == InitDecode /\ [][NextDecode]_vars

\* The block is a start line of exactly three tokens and zero or more header
\* lines that each contain ": ".
AsDescribed(block) ==
    /\ Len(block.tokens) = 3
    /\ \A i \in DOMAIN block.lines : Contains(block.lines[i], <<":", " ">>)

Decoded == out.op \in {"Request", "read"}

\* What a Request of a block as described holds
DecodedAsDescribed ==
    /\ out.request.method = arg.tokens[1]
    /\ out.request.path = SplitOnce(arg.tokens[2], <<"?">>)[1]
    /\ out.request.http_version = arg.tokens[3]
    /\ (Contains(arg.tokens[2], <<"?">>)
          => out.request.query_params = <<[name |-> <<"q">>, values |-> <<<<"1">>>>],
                                          [name |-> <<"r">>, values |-> <<<<>>>>]>>)
    /\ (~Contains(arg.tokens[2], <<"?">>) => out.request.query_params = <<>>)
    /\ \A i \in DOMAIN arg.lines :
          Headers_contains(out.request.headers, SplitOnce(arg.lines[i], <<":", " ">>)[1])

\* C37: decoding succeeds exactly for the header blocks made of a start line of
\* three whitespace-separated tokens and zero or more header lines that each
\* contain ": "; it yields the method, the path without the query string, the
\* query parameters, the version and the headers. Every other block fails with
\* one ValueError that carries the raw bytes.
C37_DecodingSucceedsExactly ==
    Decoded =>
        /\ AsDescribed(arg) <=> out.request.raised = NoError
        /\ AsDescribed(arg) => DecodedAsDescribed
        /\ ~AsDescribed(arg) => (/\ out.request.raised = Raised("ValueError")
                                 /\ out.request.carried = out.raw)

\* The same for the blocks that have a header line.
DecodingWithHeaderLines ==
    (Decoded /\ arg.lines # <<>>) =>
        /\ AsDescribed(arg) <=> out.request.raised = NoError
        /\ AsDescribed(arg) => DecodedAsDescribed
        /\ ~AsDescribed(arg) => (/\ out.request.raised = Raised("ValueError")
                                 /\ out.request.carried = out.raw)

\* A block without header lines is never decoded: the ValueError is raised.
NoHeaderLinesRaises ==
    (Decoded /\ arg.lines = <<>>) =>
        (out.request.raised = Raised("ValueError") /\ out.request.carried = out.raw)

-----------------------------------------------------------------------------
(***************************************************************************)
(* SpecNone: a handler builds a response of one of the classes, with       *)
(* headers of its own or without, and the server sends its status line and *)
(* its header block. arg is what the handler gave; out is the response     *)
(* built, then the header block sent.                                      *)
(***************************************************************************)
\* The status of the response after the constructor of its class
class_status(kind) ==
    CASE kind = "Websocket" -> SWITCHING_PROTOCOLS_101
      [] kind = "Redirect" -> FOUND_302
      [] OTHER -> OK_200

XName == <<"X">>

\* The headers the handler gives: none, a Content-Type, a header of another name,
\* two of them, and a header whose value is None
GivenHeaders ==
    CallerHeaders
        \cup { <<[name |-> XName, value |-> <<"1">>]>>,
               <<[name |-> XName, value |-> NoneValue]>> }

\* A Websocket is given no header or a Content-Type.
InitNone ==
    /\ arg \in { a \in [kind : ResponseKinds, headers : GivenHeaders] :
                    a.kind = "Websocket" =>
                        /\ Len(a.headers) < 2
                        /\ ~Headers_contains(add_all(<<>>, a.headers), XName) }
    /\ ServerInit
    /\ root_path = None
    /\ out = Idle

BuildNone ==
    /\ out.op = "idle"
    /\ out' = [op |-> "init",
               status |-> class_status(arg.kind),
               headers |-> class_headers(arg.kind, add_all(<<>>, arg.headers)),
               content_type |-> self_content_type(arg.kind, NoneValue, MimeOfFile)]
    /\ UNCHANGED <<serverVars, routes, arg>>

SendNone ==
    /\ out.op = "init"
    /\ out' = [op |-> "send",
               status |-> out.status,
               sent |-> Response_send_headers(out.headers, out.content_type,
                            passed_content_length(arg.kind),
                            passed_content_type(arg.kind, out.content_type))]
    /\ UNCHANGED <<serverVars, routes, arg>>

NextNone == BuildNone \/ SendNone

SpecNone == InitNone /\ [][NextNone]_vars

\* The header block sent has a line of this name / a line of this name and value
HasLine(name) == \E i \in DOMAIN out.sent.lines : out.sent.lines[i].name = Lower(name)

HasLineOf(name, value) ==
    \E i \in DOMAIN out.sent.lines :
        out.sent.lines[i].name = Lower(name) /\ out.sent.lines[i].value = value

\* No line is written for a value that is None: neither without a value nor with
\* the text None
NoNoneLine ==
    \A i \in DOMAIN out.sent.lines :
        out.sent.lines[i].value \notin {NoneValue, FormatValue(NoneValue)}

SentNone == out.op = "send" /\ out.sent.raised = NoError

\* C38: a response header whose value is None is never written: the handshake
\* response of a Websocket has the status 101, Upgrade: websocket, Connection:
\* Upgrade and Sec-WebSocket-Accept, and no Content-Type and no Content-Length
\* line; a Redirect has no Content-Length line.
C38_NoneNeverWritten ==
    SentNone =>
        /\ NoNoneLine
        /\ (arg.kind = "Websocket" /\ arg.headers = <<>>)
              => /\ out.status = SWITCHING_PROTOCOLS_101
                 /\ HasLineOf(UpgradeName, <<"websocket">>)
                 /\ HasLineOf(ConnectionName, <<"Upgrade">>)
                 /\ HasLine(SecWebSocketAcceptName)
                 /\ ~HasLine(ContentTypeName)
                 /\ ~HasLine(ContentLengthName)
        /\ arg.kind = "Redirect" => ~HasLine(ContentLengthName)

\* The handshake response but for its Content-Type
HandshakeButContentType ==
    (SentNone /\ arg.kind = "Websocket" /\ arg.headers = <<>>)
        => /\ out.status = SWITCHING_PROTOCOLS_101
           /\ HasLineOf(UpgradeName, <<"websocket">>)
           /\ HasLineOf(ConnectionName, <<"Upgrade">>)
           /\ HasLine(SecWebSocketAcceptName)
           /\ ~HasLine(ContentLengthName)

\* The Content-Length that _send_headers is given as None is not written.
NoneContentLengthNotWritten ==
    (SentNone /\ arg.kind \in {"Redirect", "Websocket", "ChunkedResponse", "SSEResponse"})
        => ~HasLine(ContentLengthName)

\* The None a Websocket sets as its Content-Type is written as the text None.
WebsocketContentTypeWritten ==
    (SentNone /\ arg.kind = "Websocket" /\ ~Headers_contains(add_all(<<>>, arg.headers),
                                                             ContentTypeName))
        => HasLineOf(ContentTypeName, FormatValue(NoneValue))

\* No line is written without a value.
NoValuelessLine ==
    SentNone => \A i \in DOMAIN out.sent.lines : out.sent.lines[i].value # NoneValue

-----------------------------------------------------------------------------
(***************************************************************************)
(* request.py: the properties cookies and form_data of a Request. The      *)
(* request r is the record of its method, its headers, its body and the    *)
(* attributes _cookies and _form_data; an object that a parse makes has    *)
(* the number of the parse as its identity. made counts the calls of       *)
(* _parse_cookies and of FormData.                                         *)
(***************************************************************************)
NoObject == [none |-> TRUE, id |-> 0, raised |-> NoError, value |-> <<>>]

Object(id, value) == [none |-> FALSE, id |-> id, raised |-> NoError, value |-> value]

\* dict[name] = value
DictSet(dict, name, value) ==
    IF \E i \in DOMAIN dict : dict[i].name = name
    THEN [i \in DOMAIN dict |-> IF dict[i].name = name THEN [dict[i] EXCEPT !.value = value]
                                ELSE dict[i]]
    ELSE Append(dict, [name |-> name, value |-> value])

\* The dict comprehension of _parse_cookies over the split cookies
RECURSIVE cookies_of(_, _)
cookies_of(cookies, dict) ==
    IF cookies = <<>> THEN dict
    ELSE cookies_of(Tail(cookies),
                    DictSet(dict, SplitOnce(Strip(Head(cookies), Whitespace), <<"=">>)[1],
                            Strip(SplitOnce(Strip(Head(cookies), Whitespace), <<"=">>)[2],
                                  {"\""})))

parse_cookies_split(cookies) ==
    IF \E i \in DOMAIN cookies :
          Len(SplitOnce(Strip(cookies[i], Whitespace), <<"=">>)) # 2
    THEN [raised |-> Raised("ValueError"), value |-> <<>>]
    ELSE [raised |-> NoError, value |-> cookies_of(cookies, <<>>)]

\* Request._parse_cookies(cookie_header)
parse_cookies(cookie_header) ==
    IF cookie_header = NoneValue THEN [raised |-> NoError, value |-> <<>>]
    ELSE parse_cookies_split(SplitBy(cookie_header, <<";">>))

CookieName == <<"C", "o", "o", "k", "i", "e">>

\* What an access gives: the request after it, what it returned or raised, and
\* whether it parsed
Accessed(r, returned, raised, parsed) ==
    [request |-> r, returned |-> returned, raised |-> raised, parsed |-> parsed]

\* The property once the parse is made: its value is stored and returned, its
\* exception leaves the attribute as it was
Stored(r, attribute, made) ==
    IF made.raised # NoError
    THEN Accessed([r EXCEPT !.made = @ + 1], NoObject, made.raised, TRUE)
    ELSE Accessed([r EXCEPT !.made = @ + 1, ![attribute] = Object(r.made + 1, made.value)],
                  Object(r.made + 1, made.value), NoError, TRUE)

\* Request.cookies, were the attribute _cookies not looked at.
Request_cookies_parsing(r) ==
    Stored(r, "_cookies", parse_cookies(Headers_get(r.headers, CookieName, NoneValue)))

\* Request.cookies
Request_cookies(r) ==
    IF r._cookies.none
    THEN Stored(r, "_cookies", parse_cookies(Headers_get(r.headers, CookieName, NoneValue)))
    ELSE Accessed(r, r._cookies, NoError, FALSE)

\* The FormData object, or what its making raised
FormDataMade(form) == [raised |-> form.raised, value |-> <<form.fields, form.files>>]

\* Request.form_data
Request_form_data(r) ==
    IF r._form_data.none /\ r.method = POST
    THEN Stored(r, "_form_data", FormDataMade(FormData_init(r.body, r.headers)))
    ELSE Accessed(r, r._form_data, NoError, FALSE)

-----------------------------------------------------------------------------
(***************************************************************************)
(* SpecLazy: a handler reads request.cookies and request.form_data of a    *)
(* request, each up to MaxReads times. arg is the request with the number  *)
(* of reads of each property and, for each, whether a read has returned    *)
(* and what; out is the last read.                                         *)
(***************************************************************************)
MaxReads == 2        \* reads of each property

PUT == "PUT"

LazyMethods == {GET, POST, PUT}

\* No Cookie header, one of three cookies of which two have the same name, and
\* one without "="
CookieHeaders ==
    { NoneValue,
      <<"a", "=", "1", ";", " ", "b", "=", "\"", "2", "\"", ";", " ", "a", "=", "3">>,
      <<"a">> }

\* A form of one field, and one whose text file is no UTF-8
LazyForms ==
    { <<[name |-> <<"a">>, filename |-> NoneValue, content_type |-> NoneValue,
         content |-> <<"x">>]>>,
      <<[name |-> <<"a">>, filename |-> <<"f">>, content_type |-> TextPlain,
         content |-> <<"<FF>">>]>> }

LazyRequest(method, cookie, form) ==
    [method |-> method,
     headers |-> IF cookie = NoneValue THEN FormRequestHeaders(MultipartBody(form))
                 ELSE Headers_add(FormRequestHeaders(MultipartBody(form)), CookieName, cookie),
     body |-> MultipartBody(form),
     _cookies |-> NoObject, _form_data |-> NoObject, made |-> 0]

NoReads == [reads |-> 0, parses |-> 0, returned |-> FALSE, first |-> NoObject]

InitLazy ==
    /\ \E method \in LazyMethods, cookie \in CookieHeaders, form \in LazyForms :
          arg = [request |-> LazyRequest(method, cookie, form),
                 cookie |-> cookie, cookies |-> NoReads, form_data |-> NoReads]
    /\ ServerInit
    /\ root_path = None
    /\ out = Idle

\* The property was read with the outcome a.
ReadProperty(property, a) ==
    /\ arg' = [arg EXCEPT
                 !.request = a.request,
                 ![property] =
                     [reads |-> @.reads + 1,
                      parses |-> @.parses + (IF a.parsed THEN 1 ELSE 0),
                      returned |-> @.returned \/ a.raised = NoError,
                      first |-> IF ~@.returned /\ a.raised = NoError THEN a.returned
                                ELSE @.first]]
    /\ out' = [op |-> property, nth |-> arg[property].reads + 1,
               after_returned |-> arg[property].returned,
               earlier |-> arg[property].first,
               returned |-> a.returned, raised |-> a.raised, parsed |-> a.parsed]
    /\ UNCHANGED <<serverVars, routes>>

ReadCookies ==
    /\ arg.cookies.reads < MaxReads
    /\ ReadProperty("cookies", Request_cookies(arg.request))

ReadFormData ==
    /\ arg.form_data.reads < MaxReads
    /\ ReadProperty("form_data", Request_form_data(arg.request))

NextLazy == ReadCookies \/ ReadFormData

SpecLazy == InitLazy /\ [][NextLazy]_vars

IsRead == out.op \in {"cookies", "form_data"}

\* Without a Cookie header cookies is an empty map; but for POST form_data is
\* None and no form is parsed.
EmptyCookiesAndNoForm ==
    /\ (out.op = "cookies" /\ arg.cookie = NoneValue)
          => (out.raised = NoError /\ ~out.returned.none /\ out.returned.value = <<>>)
    /\ (out.op = "form_data" /\ arg.request.method # POST)
          => (out.raised = NoError /\ out.returned = NoObject)
    /\ arg.request.method # POST => arg.form_data.parses = 0

\* C39 as stated: cookies and form_data are computed at most once per request:
\* every read after the first returns the same object and parses nothing;
\* cookies is an empty map without a Cookie header; but for POST form_data is
\* None and the body is never parsed as a form.
C39_ComputedOnce ==
    /\ arg.cookies.parses <= 1
    /\ arg.form_data.parses <= 1
    /\ (IsRead /\ out.nth > 1)
          => (out.raised = NoError /\ ~out.parsed /\ out.returned = out.earlier)
    /\ EmptyCookiesAndNoForm

\* C39, amended: every read of cookies and of form_data after a read that
\* returned gives the same object and parses nothing, so that each property has
\* one object at most per request; a read that raised stored nothing, and the
\* next read parses again. Cookies is an empty map without a Cookie header; but
\* for POST form_data is None and the body is never parsed as a form.
C39_ComputedOnceReturned ==
    /\ (IsRead /\ out.after_returned)
          => (out.raised = NoError /\ ~out.parsed /\ out.returned = out.earlier)
    /\ (IsRead /\ ~out.after_returned /\ out.nth > 1)
          => (out.raised # NoError /\ out.parsed)
    /\ arg.cookies.returned => arg.cookies.parses = 1
    /\ arg.form_data.returned => arg.form_data.parses <= 1
    /\ EmptyCookiesAndNoForm

\* Both properties of a POST request were read twice and parsed once.
C39_Witness ==
    /\ arg.request.method = POST
    /\ arg.cookie \notin {NoneValue, <<"a">>}
    /\ arg.cookies.reads = MaxReads
    /\ arg.form_data.reads = MaxReads
    /\ arg.cookies.parses = 1
    /\ arg.form_data.parses = 1
    /\ ~arg.request._form_data.none
    /\ arg.request._cookies.value = <<[name |-> <<"a">>, value |-> <<"3">>],
                                      [name |-> <<"b">>, value |-> <<"2">>]>>

=============================================================================
